---- MODULE Spec2Model ----
(***************************************************************************)
(* A model of the DevmProofGen core: the abstract domain (analysis.rs),    *)
(* the block builder and the liveness minimiser (block.rs) and the         *)
(* ownership rule of the control-flow graph (cfg.rs).                       *)
(*                                                                         *)
(* Conventions.                                                            *)
(*   Option<T>      None is <<>>, Some(v) is <<v>>.                        *)
(*   w256           a 256-bit word is its big-endian byte string with the  *)
(*                  leading zero bytes removed (zero is <<>>), so equality *)
(*                  of words is equality of tuples and no value exceeds    *)
(*                  the integers of the checker.                            *)
(*   Vec<T>         a sequence; Rust index i is TLA+ index i+1.            *)
(***************************************************************************)
EXTENDS Integers, Sequences, FiniteSets, TLC

VARIABLES
    absSelf,    \* AbstractState: the receiver of join / cancel / clear_stack_item
    absOther,   \* AbstractState: the argument of join / cancel
    absPre,     \* the receiver as it was before the last operation
    absOp,      \* the last operation applied to absSelf
    graph,      \* ControlFlowGraph.graph: node -> set of successor nodes
    dominators, \* ControlFlowGraph.dominators: node -> set of its dominators
    reaches,    \* ControlFlowGraph.reaches: node -> set of nodes it reaches
    roots,      \* ControlFlowGraph.roots: Vec<usize> of registered root pcs
    cfgBlocks,  \* ControlFlowGraph.blocks: the starting pcs of the super-blocks
    insns,      \* the instruction stream given to BlockSequence::from_insns
    blocksize,  \* the block size n given to BlockSequence::from_insns
    preHook,    \* the precondition hook given to BlockSequence::from_insns
    analysis,   \* insns_to_blocks: the BytecodeAnalysis of the stream
    blocks,     \* insns_to_blocks: the blocks built so far; then the block sequence
    insnIndex,  \* insns_to_blocks: index of the current instruction
    insnPc,     \* insns_to_blocks: byte offset (pc) of the current instruction
    spans,      \* history: for each block the instructions [first, last) it translated
    offsets,    \* determine_necessary_stateinfo: block pc -> block index
    changed,    \* determine_necessary_stateinfo: did the last round change a state
    counter,    \* determine_necessary_stateinfo: rounds left
    phase,      \* where the run is: build, live, analysed, minimised, printed or panic
    printed,    \* print_stack_requires: the index of the block it was called on
    stacked,    \* print_dynamic_stack_requires: what block_stacked_states returned
    traceStates,\* from_insns: the Vec<State> the trace returned for one instruction
    absStates,  \* from_insns: the Vec<AbstractState> stored for that instruction
    convOp,     \* from_insns: traced (before the conversion) or converted
    xferBytecode, \* transfer_bytecode: the bytecode it is applied to
    xferAfter,  \* transfer_bytecode: the NecessaryState after the bytecode (its argument)
    xferBefore, \* transfer_bytecode: the NecessaryState before the bytecode (its result)
    xferBlocks, \* transfer_bytecode: the blocks it is given (their entry states matter)
    xferOp,     \* transfer_bytecode: called (not yet applied), returned or panic
    nsSelf,     \* NecessaryState::join: the stack of self before the call
    nsOther,    \* NecessaryState::join: the stack of other
    nsJoined,   \* NecessaryState::join: the stack of self after the call
    nsChanged,  \* NecessaryState::join: the value returned
    nsOp        \* NecessaryState::join: new (before the call) or join

absVars == <<absSelf, absOther, absPre, absOp>>
cfgVars == <<graph, dominators, reaches, roots, cfgBlocks>>
inputVars == <<insns, blocksize, preHook, analysis>>
buildVars == <<blocks, insnIndex, insnPc, spans>>
liveVars == <<offsets, changed, counter>>
printVars == <<printed, stacked>>
pipeVars == <<insns, blocksize, preHook, analysis, blocks, insnIndex, insnPc, spans,
              offsets, changed, counter, phase, printed, stacked>>
convVars == <<traceStates, absStates, convOp>>
xferVars == <<xferBytecode, xferAfter, xferBefore, xferBlocks, xferOp>>
nsVars == <<nsSelf, nsOther, nsJoined, nsChanged, nsOp>>

vars == <<absSelf, absOther, absPre, absOp,
          graph, dominators, reaches, roots, cfgBlocks,
          insns, blocksize, preHook, analysis, blocks, insnIndex, insnPc, spans,
          offsets, changed, counter, phase, printed, stacked,
          traceStates, absStates, convOp,
          xferBytecode, xferAfter, xferBefore, xferBlocks, xferOp,
          nsSelf, nsOther, nsJoined, nsChanged, nsOp>>

\* ---------------------------------------------------------------- helpers

None == <<>>
Some(v) == <<v>>
IsSome(o) == o # None
Unwrap(o) == o[1]

Min(a, b) == IF a <= b THEN a ELSE b
Max(a, b) == IF a >= b THEN a ELSE b

\* All sequences over S of length at most n.
SeqsUpTo(S, n) == UNION { [1..k -> S] : k \in 0..n }

\* ---------------------------------------------------------------- words

\* w256 of a small native integer (n < 2^16).
W(n) == IF n = 0 THEN <<>> ELSE IF n < 256 THEN <<n>> ELSE <<n \div 256, n % 256>>

\* k bytes 0xff: the low-(8k)-bit mask.
Ones(k) == [i \in 1..k |-> 255]

RECURSIVE WordToNat(_)
WordToNat(w) == IF w = <<>> THEN 0
                ELSE 256 * WordToNat(SubSeq(w, 1, Len(w) - 1)) + w[Len(w)]

\* ---------------------------------------------------------------- bounds

\* Longest stack frame of an abstract state drawn as an input.
MaxStack == 3

\* Number of basic-block nodes of a control-flow graph drawn as an input.
MaxNodes == 3

\* Bytes covered by each basic-block node.
NodeLen == 2

\* Largest number of roots registered with add_root.
MaxRoots == 2

\* Most states the trace returns for one instruction in SpecConv.
MaxTrace == 3

\* Highest stack the trace engine follows (the EVM's limit is 1024).
MaxTraceStack == 4

\* Longest instruction stream enumerated exhaustively over Alphabet.
MaxInsns == 3

\* Largest block size below the length of the longest stream.
MaxBlockSize == 3
MaxBits == 4

\* `let mut counter = 100` of determine_necessary_stateinfo.
SafetyCounter == 100

\* ---------------------------------------------------------------- analysis.rs

\* The words and free-memory pointers the abstract states are drawn from.
StackWords == {W(1), W(2)}
FmpValues == {96, 128}

OptionOf(S) == {None} \cup {Some(v) : v \in S}

AbstractStates ==
    [freemem_ptr : OptionOf(FmpValues),
     stack_frame : SeqsUpTo(OptionOf(StackWords), MaxStack)]

\* AbstractState::join_word that resets lhs in every case.
join_word_reset(lhs, rhs) == None

\* AbstractState::join_word that keeps a known lhs when rhs is unknown.
join_word_known_lhs(lhs, rhs) ==
    IF IsSome(lhs) /\ (rhs = None \/ Unwrap(lhs) = Unwrap(rhs)) THEN lhs ELSE None

\* AbstractState::join_word with a rhs that is never looked at (a plausible slip).
join_word_keep_lhs(lhs, rhs) == lhs

\* AbstractState::join_word: lhs stays iff both are Some and equal.
join_word(lhs, rhs) ==
    IF IsSome(lhs) /\ IsSome(rhs) /\ Unwrap(lhs) = Unwrap(rhs) THEN lhs ELSE None

\* AbstractState::join_stack: truncate to the shorter length, join slot by slot.
join_stack(stack_frame, stack) ==
    LET n == Min(Len(stack_frame), Len(stack))
        truncated == SubSeq(stack_frame, 1, n)
    IN  [i \in 1..n |-> join_word(truncated[i], stack[i])]

\* AbstractState::join
join(self, other) ==
    [freemem_ptr |-> join_word(self.freemem_ptr, other.freemem_ptr),
     stack_frame |-> join_stack(self.stack_frame, other.stack_frame)]

\* AbstractState::cancel panics when `self.stack_frame[i]` is indexed at or
\* past the length of self, which happens iff other is the longer stack.
cancel_panics(self, other) == Len(other.stack_frame) > Len(self.stack_frame)

\* AbstractState::cancel: self after the loop over the n slots of other (up
\* to the panic, when there is one).
cancel(self, other) ==
    LET n == Len(other.stack_frame)
    IN  [self EXCEPT !.stack_frame =
            [i \in 1..Len(self.stack_frame) |->
                IF i <= n /\ self.stack_frame[i] # None /\ other.stack_frame[i] # None
                THEN None ELSE self.stack_frame[i]]]

\* ---------------------------------------------------------------- instructions
\* evmil::bytecode::Instruction, as far as the block builder reads it: the
\* opcode, the immediate bytes of a PUSH / DATA, the index of a DUP / SWAP /
\* LOG / HAVOC, and the derived length(), fallthru() and operands().

Insn(op, arg) == [op |-> op, arg |-> arg]
Op(name) == Insn(name, <<>>)
PUSH(bytes) == Insn("PUSH", bytes)
PUSH1(b) == PUSH(<<b>>)
DUP(k) == Insn("DUP", <<k>>)
SWAP(k) == Insn("SWAP", <<k>>)
LOG(k) == Insn("LOG", <<k>>)
HAVOC(k) == Insn("HAVOC", <<k>>)
DATA(bytes) == Insn("DATA", bytes)

\* Instruction::length as used at block.rs:283: the opcode byte plus the
\* immediate bytes of a PUSH, the bytes of a DATA, and nothing for the virtual
\* HAVOC, which is not part of the contract's bytes (jump targets are byte
\* offsets of the contract itself).
insn_length(insn) ==
    CASE insn.op = "PUSH"  -> 1 + Len(insn.arg)
      [] insn.op = "DATA"  -> Len(insn.arg)
      [] insn.op = "HAVOC" -> 0
      [] OTHER             -> 1

\* Instruction::fallthru as used at block.rs:327.
insn_fallthru(insn) ==
    insn.op \notin {"STOP", "JUMP", "RETURN", "REVERT", "INVALID", "SELFDESTRUCT", "DATA"}

\* Instruction::operands as used at block.rs:530: the stack items consumed.
insn_operands(insn) ==
    CASE insn.op \in {"STOP", "JUMPDEST", "PUSH", "CALLVALUE", "INVALID", "HAVOC", "DATA",
                      "CALLDATASIZE", "PC"} -> 0
      [] insn.op \in {"POP", "JUMP", "ISZERO", "NOT", "MLOAD", "SLOAD", "CALLDATALOAD",
                      "SELFDESTRUCT"} -> 1
      [] insn.op \in {"ADD", "MUL", "SUB", "AND", "OR", "EQ", "LT", "GT", "JUMPI",
                      "MSTORE", "MSTORE8", "SSTORE", "RETURN", "REVERT"} -> 2
      [] insn.op = "LOG"  -> 2 + insn.arg[1]
      [] insn.op = "CALL" -> 7
      [] insn.op = "DUP"  -> insn.arg[1]
      [] insn.op = "SWAP" -> insn.arg[1] + 1

\* ---------------------------------------------------------------- words

\* w256::from_be_bytes of the immediate bytes of a PUSH.
RECURSIVE Strip(_)
Strip(bytes) ==
    IF bytes # <<>> /\ bytes[1] = 0 THEN Strip(Tail(bytes)) ELSE bytes

RECURSIVE ByteAnd(_, _)
ByteAnd(a, b) ==
    IF a = 0 \/ b = 0 THEN 0
    ELSE 2 * ByteAnd(a \div 2, b \div 2) + (a % 2) * (b % 2)

\* Bitwise and of two words.
WordAnd(a, b) ==
    LET k == Min(Len(a), Len(b))
    IN  Strip([i \in 1..k |-> ByteAnd(a[Len(a) - k + i], b[Len(b) - k + i])])

\* Wrapping sum of two words of at most one byte each.
WordAddSmall(a, b) == W(WordToNat(a) + WordToNat(b))

\* ruint's Uint::to::<usize>(): the value of a word that fits 64 bits; a
\* larger word makes the conversion panic.
FitsUsize(w) == Len(w) <= 8
ToUsize(w) == WordToNat(w)

\* ---------------------------------------------------------------- trace engine
\* evmil::analysis::trace as called by BytecodeAnalysis::from_insns: the
\* lattice states reached on entry to each instruction from the empty initial
\* state.  A lattice state is the stack (index 0, TLA+ index 1, is the top) of
\* abstract words and the abstract word read at memory offset 0x40.

\* Byte offset of instruction i (1-based) of the stream.
RECURSIVE OffsetOf(_, _)
OffsetOf(stream, i) ==
    IF i <= 1 THEN 0 ELSE OffsetOf(stream, i - 1) + insn_length(stream[i - 1])

\* The instruction index of the JUMPDEST at byte offset `target`, 0 if none.
JumpDestAt(stream, target) ==
    LET hits == { i \in 1..Len(stream) :
                    stream[i].op = "JUMPDEST" /\ OffsetOf(stream, i) = target }
    IN  IF hits = {} THEN 0 ELSE CHOOSE i \in hits : TRUE

Drop(stack, k) == SubSeq(stack, k + 1, Len(stack))

Lattice(at, stack, fmp) == [at |-> at, stack |-> stack, fmp |-> fmp]

\* The successors of lattice state s: the EVM semantics of one instruction over
\* abstract words.  A stack underflow, a stack above MaxTraceStack, an invalid
\* jump target and the end of the stream have no successor.
TraceStep(stream, s) ==
    LET insn == stream[s.at]
        st == s.stack
        k == insn_operands(insn)
        Goto(at, stack, fmp) ==
            IF at >= 1 /\ at <= Len(stream) /\ Len(stack) <= MaxTraceStack
            THEN {Lattice(at, stack, fmp)} ELSE {}
        Fall(stack) == Goto(s.at + 1, stack, s.fmp)
        JumpTo(w, stack) ==
            IF IsSome(w) /\ Len(Unwrap(w)) <= 2
            THEN Goto(JumpDestAt(stream, WordToNat(Unwrap(w))), stack, s.fmp)
            ELSE {}
    IN  IF Len(st) < k THEN {}
        ELSE CASE insn.op = "PUSH" -> Fall(<<Some(Strip(insn.arg))>> \o st)
          [] insn.op = "CALLVALUE" -> Fall(<<None>> \o st)
          [] insn.op = "POP" -> Fall(Drop(st, 1))
          [] insn.op = "DUP" -> Fall(<<st[k]>> \o st)
          [] insn.op = "SWAP" ->
                Fall([i \in 1..Len(st) |->
                        IF i = 1 THEN st[k] ELSE IF i = k THEN st[1] ELSE st[i]])
          [] insn.op = "ADD" ->
                Fall(<<IF IsSome(st[1]) /\ IsSome(st[2])
                          /\ Len(Unwrap(st[1])) <= 1 /\ Len(Unwrap(st[2])) <= 1
                       THEN Some(WordAddSmall(Unwrap(st[1]), Unwrap(st[2])))
                       ELSE None>> \o Drop(st, 2))
          [] insn.op = "AND" ->
                Fall(<<IF IsSome(st[1]) /\ IsSome(st[2])
                       THEN Some(WordAnd(Unwrap(st[1]), Unwrap(st[2])))
                       ELSE None>> \o Drop(st, 2))
          [] insn.op = "MSTORE" ->
                Goto(s.at + 1, Drop(st, 2),
                     IF st[1] = None THEN None
                     ELSE IF Unwrap(st[1]) = W(64)
                          THEN (IF IsSome(st[2]) /\ Len(Unwrap(st[2])) <= 2
                                THEN Some(WordToNat(Unwrap(st[2]))) ELSE None)
                          ELSE s.fmp)
          [] insn.op \in {"SSTORE", "LOG"} -> Fall(Drop(st, k))
          [] insn.op = "JUMPDEST" -> Fall(st)
          [] insn.op = "HAVOC" ->
                Fall([i \in 1..Len(st) |-> IF i = insn.arg[1] + 1 THEN None ELSE st[i]])
          [] insn.op = "JUMP" -> JumpTo(st[1], Drop(st, 1))
          [] insn.op = "JUMPI" ->
                (IF st[2] = Some(W(0)) THEN {} ELSE JumpTo(st[1], Drop(st, 2)))
                \cup (IF IsSome(st[2]) /\ st[2] # Some(W(0)) THEN {} ELSE Fall(Drop(st, 2)))
          [] OTHER -> {}

RECURSIVE TraceReach(_, _, _)
TraceReach(stream, seen, frontier) ==
    LET more == (UNION { TraceStep(stream, s) : s \in frontier }) \ seen
    IN  IF more = {} THEN seen ELSE TraceReach(stream, seen \cup more, more)

\* A set as a sequence, in a fixed order.
RECURSIVE SetToSeq(_)
SetToSeq(S) ==
    IF S = {} THEN <<>>
    ELSE LET x == CHOOSE y \in S : TRUE IN <<x>> \o SetToSeq(S \ {x})

\* trace(&insns, init): for each instruction the states reached on entry to it.
trace(stream) ==
    LET init == Lattice(1, <<>>, None)
        all == IF stream = <<>> THEN {} ELSE TraceReach(stream, {init}, {init})
    IN  [i \in 1..Len(stream) |-> SetToSeq({ s \in all : s.at = i })]

\* ---------------------------------------------------------------- analysis.rs

\* AbstractState::new: the stack frame by peeking 0..size, each lattice word
\* Some iff constant, and the free-memory pointer read at 0x40.
AbstractState_new(state) ==
    [freemem_ptr |-> state.fmp,
     stack_frame |-> [i \in 1..Len(state.stack) |-> state.stack[i]]]

\* Vec::dedup: consecutive equal elements collapse to the first.
RECURSIVE dedup(_)
dedup(v) ==
    IF Len(v) <= 1 THEN v
    ELSE IF v[1] = v[2] THEN dedup(Tail(v))
         ELSE <<v[1]>> \o dedup(Tail(v))

\* The body of the loop `for t in trace` of BytecodeAnalysis::from_insns: the
\* states of one instruction are converted, then Vec::dedup is applied.
convert_states(t) == dedup([j \in 1..Len(t) |-> AbstractState_new(t[j])])

\* BytecodeAnalysis::from_insns
from_insns(stream) ==
    LET t == trace(stream)
    IN  [i \in 1..Len(stream) |-> convert_states(t[i])]

\* BytecodeAnalysis::get_states (index is the 0-based instruction offset).
get_states(an, i) == an[i + 1]

\* ---------------------------------------------------------------- block.rs: bytecodes

\* enum Bytecode: the tag, the instruction of a Unit, and the payload of the
\* other variants (the uses of an Assert, the width of a Mask, the targets of a
\* Jump / JumpI, the operand of the HAVOC a Comment names).
Bc(tag, insn, arg) == [tag |-> tag, insn |-> insn, arg |-> arg]
NoInsn == Op("-")
Comment(k) == Bc("Comment", NoInsn, <<k>>)
AssertBc(uses) == Bc("Assert", NoInsn, uses)
Mask(width) == Bc("Mask", NoInsn, <<width>>)
Unit(insn) == Bc("Unit", insn, <<>>)
JumpI(targets) == Bc("JumpI", NoInsn, targets)
Jump(targets) == Bc("Jump", NoInsn, targets)

\* BlockState::new
BlockState_new(states) == [states |-> states, necessary |-> <<>>]

\* BlockState::join_states: the first state joined with every other one.
RECURSIVE join_from(_, _, _)
join_from(r, states, i) ==
    IF i > Len(states) THEN r ELSE join_from(join(r, states[i]), states, i + 1)

join_states(states) == join_from(states[1], states, 2)

\* AbstractState::join_states, which operand calls: the join of a slice of
\* states, as BlockState::join_states computes it.
AbstractState_join_states(states) == join_states(states)

\* operand: the item at `index` of the join of the states, None when the
\* joined stack is too short (or when there is no state to join).
operand(index, states) ==
    IF states = <<>> THEN None
    ELSE LET stack == AbstractState_join_states(states).stack_frame
         IN  IF Len(stack) <= index THEN None ELSE stack[index + 1]

MASK_U1 == <<1>>
MASK_U5 == <<31>>
MASK_U8 == Ones(1)
MASK_U16 == Ones(2)
MASK_U24 == Ones(3)
MASK_U32 == Ones(4)
MASK_U64 == Ones(8)
MASK_U128 == Ones(16)
MASK_U160 == Ones(20)

\* as_bit_mask
as_bit_mask(w) ==
    CASE w = MASK_U1 -> 1
      [] w = MASK_U5 -> 5
      [] w = MASK_U8 -> 8
      [] w = MASK_U16 -> 16
      [] w = MASK_U32 -> 32
      [] w = MASK_U64 -> 64
      [] w = MASK_U128 -> 128
      [] w = MASK_U160 -> 160
      [] OTHER -> 0

\* slice::sort_unstable on native integers (insertion sort).
RECURSIVE insert_sorted(_, _)
insert_sorted(v, x) ==
    IF v = <<>> THEN <<x>>
    ELSE IF x <= v[1] THEN <<x>> \o v
         ELSE <<v[1]>> \o insert_sorted(Tail(v), x)

RECURSIVE sort_unstable(_)
sort_unstable(v) ==
    IF v = <<>> THEN <<>> ELSE insert_sorted(sort_unstable(Tail(v)), v[1])

\* jump_targets panics when a state has an empty stack (index 0 out of range),
\* an unknown top of stack (unwrap of None) or a top that does not fit usize.
jump_targets_panics(states) ==
    \E i \in 1..Len(states) :
        LET stack == states[i].stack_frame
        IN  \/ Len(stack) = 0
            \/ stack[1] = None
            \/ ~FitsUsize(Unwrap(stack[1]))

\* jump_targets without the call of dedup.
jump_targets_sorted_only(states) ==
    sort_unstable([i \in 1..Len(states) |->
                      ToUsize(Unwrap(states[i].stack_frame[1]))])

\* jump_targets: the tops of stack of the states, sorted, without duplicates.
jump_targets(states) ==
    dedup(sort_unstable([i \in 1..Len(states) |->
                            ToUsize(Unwrap(states[i].stack_frame[1]))]))

Translated(bc, done, panic) == [bc |-> bc, done |-> done, panic |-> panic]

\* The states of a branch whose top of stack is a known word.
known_top(states) ==
    SelectSeq(states, LAMBDA st : Len(st.stack_frame) > 0 /\ st.stack_frame[1] # None)

\* translate_insn with branch targets taken from the states with a known top
\* of stack only, the others being skipped.
translate_insn_skip_unknown(insn, done, states) ==
    CASE insn.op = "AND" ->
            LET b == operand(0, states)
            IN  IF IsSome(b) /\ as_bit_mask(Unwrap(b)) # 0
                THEN Translated(Mask(as_bit_mask(Unwrap(b))), done, FALSE)
                ELSE Translated(Unit(insn), done, FALSE)
      [] insn.op = "HAVOC" -> Translated(Comment(insn.arg[1]), done, FALSE)
      [] insn.op = "JUMPI" ->
            IF jump_targets_panics(known_top(states)) THEN Translated(Unit(insn), done, TRUE)
            ELSE Translated(JumpI(jump_targets(known_top(states))), done, FALSE)
      [] insn.op = "JUMP" ->
            IF jump_targets_panics(known_top(states)) THEN Translated(Unit(insn), done, TRUE)
            ELSE Translated(Jump(jump_targets(known_top(states))), TRUE, FALSE)
      [] insn.op \in {"RJUMP", "RJUMPI"} -> Translated(Unit(insn), done, TRUE)
      [] insn.op = "DATA" -> Translated(Unit(insn), TRUE, FALSE)
      [] OTHER -> Translated(Unit(insn), ~insn_fallthru(insn), FALSE)

\* translate_insn with a JUMPI that terminates its block like a JUMP does.
translate_insn_jumpi_done(insn, done, states) ==
    CASE insn.op = "AND" ->
            LET b == operand(0, states)
            IN  IF IsSome(b) /\ as_bit_mask(Unwrap(b)) # 0
                THEN Translated(Mask(as_bit_mask(Unwrap(b))), done, FALSE)
                ELSE Translated(Unit(insn), done, FALSE)
      [] insn.op = "HAVOC" -> Translated(Comment(insn.arg[1]), done, FALSE)
      [] insn.op = "JUMPI" ->
            IF jump_targets_panics(states) THEN Translated(Unit(insn), done, TRUE)
            ELSE Translated(JumpI(jump_targets(states)), TRUE, FALSE)
      [] insn.op = "JUMP" ->
            IF jump_targets_panics(states) THEN Translated(Unit(insn), done, TRUE)
            ELSE Translated(Jump(jump_targets(states)), TRUE, FALSE)
      [] insn.op \in {"RJUMP", "RJUMPI"} -> Translated(Unit(insn), done, TRUE)
      [] insn.op = "DATA" -> Translated(Unit(insn), TRUE, FALSE)
      [] OTHER -> Translated(Unit(insn), ~insn_fallthru(insn), FALSE)

\* translate_insn: the bytecode of an instruction and the new `done` flag.
translate_insn(insn, done, states) ==
    CASE insn.op = "AND" ->
            LET b == operand(0, states)
            IN  IF IsSome(b) /\ as_bit_mask(Unwrap(b)) # 0
                THEN Translated(Mask(as_bit_mask(Unwrap(b))), done, FALSE)
                ELSE Translated(Unit(insn), done, FALSE)
      [] insn.op = "HAVOC" -> Translated(Comment(insn.arg[1]), done, FALSE)
      [] insn.op = "JUMPI" ->
            IF jump_targets_panics(states) THEN Translated(Unit(insn), done, TRUE)
            ELSE Translated(JumpI(jump_targets(states)), done, FALSE)
      [] insn.op = "JUMP" ->
            IF jump_targets_panics(states) THEN Translated(Unit(insn), done, TRUE)
            ELSE Translated(Jump(jump_targets(states)), TRUE, FALSE)
      [] insn.op \in {"RJUMP", "RJUMPI"} -> Translated(Unit(insn), done, TRUE)
      [] insn.op = "DATA" -> Translated(Unit(insn), TRUE, FALSE)
      [] OTHER -> Translated(Unit(insn), ~insn_fallthru(insn), FALSE)

\* PreconditionFn: the hook called once per instruction before translation.
\* "none" appends nothing; "overflows" appends an Assert with uses {0,1} for
\* ADD, MUL and SUB; "every" appends an Assert with uses {0} for every
\* instruction, as a function of the type PreconditionFn may.
precheck(hook, insn, bytecodes) ==
    CASE hook = "overflows" /\ insn.op \in {"ADD", "MUL", "SUB"} ->
            Append(bytecodes, AssertBc(<<0, 1>>))
      [] hook = "every" -> Append(bytecodes, AssertBc(<<0>>))
      [] OTHER -> bytecodes

\* The loop `while block.states.len() < block.bytecodes.len()` of
\* insns_to_block: one BlockState of the snapshot per missing entry.
RECURSIVE fill_states(_, _, _)
fill_states(states, wanted, snapshot) ==
    IF Len(states) >= wanted THEN states
    ELSE fill_states(Append(states, BlockState_new(snapshot)), wanted, snapshot)

Built(at, i, block, panic) == [pc |-> at, i |-> i, block |-> block, panic |-> panic]

\* The loop of insns_to_block with a split test that misses the second
\* instruction of the block.
RECURSIVE insns_to_block_loop_late_split(_, _, _, _, _, _, _, _, _)
insns_to_block_loop_late_split(k, at, i, first, block, done, stream, an, hook) ==
    IF ~(~done /\ i < Len(stream) /\ k > 0)
    THEN Built(at, i,
               IF k = 0 /\ ~done THEN [block EXCEPT !.next = Some(at)] ELSE block,
               FALSE)
    ELSE LET insn == stream[i + 1]
             checked == precheck(hook, insn, block.bytecodes)
         IN  IF insn.op = "JUMPDEST" /\ i # first /\ i # first + 1
             THEN Built(at, i, [block EXCEPT !.bytecodes = checked, !.next = Some(at)], FALSE)
             ELSE LET t == IF insn.op = "JUMPDEST"
                           THEN Translated(Unit(insn), done, FALSE)
                           ELSE translate_insn(insn, done, get_states(an, i))
                      bytecodes == Append(checked, t.bc)
                      grown == [block EXCEPT
                                  !.bytecodes = bytecodes,
                                  !.states = fill_states(block.states, Len(bytecodes),
                                                         get_states(an, i))]
                  IN  IF t.panic THEN Built(at, i, block, TRUE)
                      ELSE insns_to_block_loop_late_split(k - 1, at + insn_length(insn), i + 1, first,
                                               grown, t.done, stream, an, hook)

\* The while loop of insns_to_block and the statement after it, from the loop
\* state (n, at, i, block, done); `first` is the index the block started at.
RECURSIVE insns_to_block_loop(_, _, _, _, _, _, _, _, _)
insns_to_block_loop(k, at, i, first, block, done, stream, an, hook) ==
    IF ~(~done /\ i < Len(stream) /\ k > 0)
    THEN Built(at, i,
               IF k = 0 /\ ~done THEN [block EXCEPT !.next = Some(at)] ELSE block,
               FALSE)
    ELSE LET insn == stream[i + 1]
             checked == precheck(hook, insn, block.bytecodes)
         IN  IF insn.op = "JUMPDEST" /\ i # first
             THEN Built(at, i, [block EXCEPT !.bytecodes = checked, !.next = Some(at)], FALSE)
             ELSE LET t == IF insn.op = "JUMPDEST"
                           THEN Translated(Unit(insn), done, FALSE)
                           ELSE translate_insn(insn, done, get_states(an, i))
                      bytecodes == Append(checked, t.bc)
                      grown == [block EXCEPT
                                  !.bytecodes = bytecodes,
                                  !.states = fill_states(block.states, Len(bytecodes),
                                                         get_states(an, i))]
                  IN  IF t.panic THEN Built(at, i, block, TRUE)
                      ELSE insns_to_block_loop(k - 1, at + insn_length(insn), i + 1, first,
                                               grown, t.done, stream, an, hook)

\* insns_to_block that lets a JUMPDEST through as the second instruction of
\* the block.
insns_to_block_late_split(k, at, first, stream, an, hook) ==
    insns_to_block_loop_late_split(k, at, first, first,
                        [pc |-> at, states |-> <<>>, bytecodes |-> <<>>, next |-> None],
                        FALSE, stream, an, hook)

\* insns_to_block that never links the block to its successor.
insns_to_block_no_link(k, at, first, stream, an, hook) ==
    LET r == insns_to_block_loop(k, at, first, first,
                        [pc |-> at, states |-> <<>>, bytecodes |-> <<>>, next |-> None],
                        FALSE, stream, an, hook)
    IN  [r EXCEPT !.block.next = None]

\* insns_to_block with a budget of one instruction more.
insns_to_block_one_more(k, at, first, stream, an, hook) ==
    insns_to_block_loop(k + 1, at, first, first,
                        [pc |-> at, states |-> <<>>, bytecodes |-> <<>>, next |-> None],
                        FALSE, stream, an, hook)

\* insns_to_block: the next block, starting at byte offset `at` and
\* instruction offset `first`.
insns_to_block(k, at, first, stream, an, hook) ==
    insns_to_block_loop(k, at, first, first,
                        [pc |-> at, states |-> <<>>, bytecodes |-> <<>>, next |-> None],
                        FALSE, stream, an, hook)

\* ---------------------------------------------------------------- block.rs: minimisation

\* NecessaryState is its Vec<bool> `stack`: the bottom first, the top last.

\* NecessaryState::get
ns_get(stack, item) ==
    LET len == Len(stack)
    IN  IF item < len THEN stack[len - item] ELSE FALSE

\* `while self.stack.len() <= index { self.stack.insert(0,false) }`
ns_grow(stack, len) ==
    IF Len(stack) >= len THEN stack
    ELSE [i \in 1..(len - Len(stack)) |-> FALSE] \o stack

\* NecessaryState::set
ns_set(stack, item, value) ==
    LET grown == ns_grow(stack, item + 1)
    IN  [grown EXCEPT ![Len(grown) - item] = value]

\* NecessaryState::push
ns_push(stack, value) == Append(stack, value)

\* NecessaryState::pop: the stack left and the value popped (false when empty).
ns_pop(stack) ==
    IF stack = <<>> THEN [stack |-> <<>>, value |-> FALSE]
    ELSE [stack |-> SubSeq(stack, 1, Len(stack) - 1), value |-> stack[Len(stack)]]

\* NecessaryState::join that toggles the bits of self by those of other.
ns_join_toggle(self, other) ==
    LET grown == ns_grow(self, Max(Len(self), Len(other)))
        m == Len(grown) - Len(other)
        merged == [i \in 1..Len(grown) |->
                      IF i > m THEN grown[i] # other[i - m] ELSE grown[i]]
    IN  [stack |-> merged,
         changed |-> \E i \in 1..Len(other) : grown[i + m] # merged[i + m]]

\* NecessaryState::join that reports a stack grown by padding as a change.
ns_join_reports_growth(self, other) ==
    LET grown == ns_grow(self, Max(Len(self), Len(other)))
        m == Len(grown) - Len(other)
        merged == [i \in 1..Len(grown) |->
                      IF i > m THEN grown[i] \/ other[i - m] ELSE grown[i]]
    IN  [stack |-> merged,
         changed |-> merged # self]

\* NecessaryState::join: self after the merge and the `changed` it returns.
ns_join(self, other) ==
    LET grown == ns_grow(self, Max(Len(self), Len(other)))
        m == Len(grown) - Len(other)
        merged == [i \in 1..Len(grown) |->
                      IF i > m THEN grown[i] \/ other[i - m] ELSE grown[i]]
    IN  [stack |-> merged,
         changed |-> \E i \in 1..Len(other) : grown[i + m] # merged[i + m]]

\* insn_produces: the stack items an instruction pushes.
insn_produces(insn) ==
    CASE insn.op \in {"STOP", "CALLDATACOPY", "CODECOPY", "RETURNDATACOPY", "EXTCODECOPY",
                      "JUMPDEST", "POP", "JUMP", "JUMPI", "SSTORE", "MSTORE", "MSTORE8",
                      "SWAP", "LOG", "INVALID", "SELFDESTRUCT", "RETURN", "REVERT",
                      "HAVOC", "DATA"} -> 0
      [] insn.op \in {"ADD", "MUL", "SUB", "DIV", "SDIV", "MOD", "SMOD", "EXP", "SIGNEXTEND",
                      "ADDMOD", "MULMOD", "LT", "GT", "SLT", "SGT", "EQ", "AND", "OR", "XOR",
                      "ISZERO", "NOT", "BYTE", "SHL", "SHR", "SAR", "KECCAK256",
                      "ADDRESS", "ORIGIN", "CALLER", "CALLVALUE", "CALLDATASIZE", "CODESIZE",
                      "RETURNDATASIZE", "GASPRICE", "BALANCE", "CALLDATALOAD", "EXTCODESIZE",
                      "EXTCODEHASH", "BLOCKHASH", "COINBASE", "TIMESTAMP", "NUMBER",
                      "DIFFICULTY", "GASLIMIT", "CHAINID", "SELFBALANCE",
                      "MSIZE", "PC", "GAS", "MLOAD", "SLOAD", "PUSH", "DUP",
                      "CREATE", "CREATE2", "DELEGATECALL", "STATICCALL", "CALL", "CALLCODE"} -> 1

\* `for i in 0 .. m { used |= state.pop() }`
RECURSIVE pop_used(_, _, _)
pop_used(stack, count, used) ==
    IF count = 0 THEN [stack |-> stack, value |-> used]
    ELSE LET p == ns_pop(stack)
         IN  pop_used(p.stack, count - 1, used \/ p.value)

\* The push loop of the default arm that pushes true whatever was popped.
push_copies_true(stack, count, used) == stack \o [i \in 1..count |-> TRUE]

\* `for i in 0 .. n { state.push(used) }`
push_copies(stack, count, used) == stack \o [i \in 1..count |-> used]

\* merge_target_states panics when a target is no block's starting pc.
merge_target_states_panics(targets, offs) ==
    \E i \in 1..Len(targets) : targets[i] \notin DOMAIN offs

\* merge_target_states that reads the first target only.
merge_target_states_first(targets, blks, offs) ==
    IF targets = <<>> THEN <<>> ELSE blks[offs[targets[1]]].states[1].necessary

\* merge_target_states: the join of the entry NecessaryState of every target.
RECURSIVE merge_target_states_from(_, _, _, _, _)
merge_target_states_from(state, targets, i, blks, offs) ==
    IF i > Len(targets) THEN state
    ELSE merge_target_states_from(
             ns_join(state, blks[offs[targets[i]]].states[1].necessary).stack,
             targets, i + 1, blks, offs)

merge_target_states(targets, blks, offs) ==
    merge_target_states_from(<<>>, targets, 1, blks, offs)

RECURSIVE set_all(_, _, _)
set_all(stack, deps, i) ==
    IF i > Len(deps) THEN stack ELSE set_all(ns_set(stack, deps[i], TRUE), deps, i + 1)

\* transfer_bytecode panics exactly when merge_target_states does.
transfer_bytecode_panics(bytecode, blks, offs) ==
    bytecode.tag \in {"Jump", "JumpI"} /\ merge_target_states_panics(bytecode.arg, offs)

\* transfer_bytecode whose MSTORE and MSTORE8 arm pops one bit before it pushes.
transfer_bytecode_store_pops(bytecode, state, blks, offs) ==
    CASE bytecode.tag = "Comment" -> state
      [] bytecode.tag = "Assert" -> set_all(state, bytecode.arg, 1)
      [] bytecode.tag = "Unit" /\ bytecode.insn.op = "DUP" ->
            LET k == bytecode.insn.arg[1]
                tmp == ns_get(state, 0) \/ ns_get(state, k)
            IN  ns_pop(ns_set(state, k, tmp)).stack
      [] bytecode.tag = "Unit" /\ bytecode.insn.op = "SWAP" ->
            LET k == bytecode.insn.arg[1]
                tmp == ns_get(state, 0)
                first == ns_set(state, 0, ns_get(state, k))
            IN  ns_set(first, k, tmp)
      [] bytecode.tag = "Unit" /\ bytecode.insn.op \in {"MSTORE", "MSTORE8"} ->
            ns_push(ns_push(ns_pop(state).stack, FALSE), TRUE)
      [] bytecode.tag = "Mask" ->
            LET p == ns_pop(state)
            IN  ns_push(ns_push(p.stack, p.value), TRUE)
      [] bytecode.tag = "Unit" /\ bytecode.insn.op \notin {"DUP", "SWAP", "MSTORE", "MSTORE8"} ->
            LET p == pop_used(state, insn_produces(bytecode.insn), FALSE)
            IN  push_copies(p.stack, insn_operands(bytecode.insn), p.value)
      [] bytecode.tag = "JumpI" ->
            LET tgt == merge_target_states(bytecode.arg, blks, offs)
            IN  ns_push(ns_push(ns_join(state, tgt).stack, FALSE), TRUE)
      [] bytecode.tag = "Jump" ->
            LET tgt == merge_target_states(bytecode.arg, blks, offs)
            IN  ns_push(ns_join(state, tgt).stack, TRUE)

\* transfer_bytecode: the NecessaryState before a bytecode from the one after.
transfer_bytecode(bytecode, state, blks, offs) ==
    CASE bytecode.tag = "Comment" -> state
      [] bytecode.tag = "Assert" -> set_all(state, bytecode.arg, 1)
      [] bytecode.tag = "Unit" /\ bytecode.insn.op = "DUP" ->
            LET k == bytecode.insn.arg[1]
                tmp == ns_get(state, 0) \/ ns_get(state, k)
            IN  ns_pop(ns_set(state, k, tmp)).stack
      [] bytecode.tag = "Unit" /\ bytecode.insn.op = "SWAP" ->
            LET k == bytecode.insn.arg[1]
                tmp == ns_get(state, 0)
                first == ns_set(state, 0, ns_get(state, k))
            IN  ns_set(first, k, tmp)
      [] bytecode.tag = "Unit" /\ bytecode.insn.op \in {"MSTORE", "MSTORE8"} ->
            ns_push(ns_push(state, FALSE), TRUE)
      [] bytecode.tag = "Mask" ->
            LET p == ns_pop(state)
            IN  ns_push(ns_push(p.stack, p.value), TRUE)
      [] bytecode.tag = "Unit" /\ bytecode.insn.op \notin {"DUP", "SWAP", "MSTORE", "MSTORE8"} ->
            LET p == pop_used(state, insn_produces(bytecode.insn), FALSE)
            IN  push_copies(p.stack, insn_operands(bytecode.insn), p.value)
      [] bytecode.tag = "JumpI" ->
            LET tgt == merge_target_states(bytecode.arg, blks, offs)
            IN  ns_push(ns_push(ns_join(state, tgt).stack, FALSE), TRUE)
      [] bytecode.tag = "Jump" ->
            LET tgt == merge_target_states(bytecode.arg, blks, offs)
            IN  ns_push(ns_join(state, tgt).stack, TRUE)

\* The HashMap `offsets` of determine_necessary_stateinfo: block pc -> block
\* index; a later block with the same pc replaces the earlier entry.
block_offsets(blks) ==
    [at \in { blks[i].pc : i \in 1..Len(blks) } |->
        CHOOSE i \in 1..Len(blks) :
            /\ blks[i].pc = at
            /\ \A j \in 1..Len(blks) : blks[j].pc = at => j <= i]

Pass(blks, chg, panic) == [blocks |-> blks, changed |-> chg, panic |-> panic]

\* `for j in (0..m).rev()`: the bytecodes of block i backwards from j, with the
\* running state; each per-point state is joined in place.
RECURSIVE pass_bytecodes(_, _, _, _, _, _)
pass_bytecodes(blks, i, j, state, chg, offs) ==
    IF j = 0 THEN Pass(blks, chg, FALSE)
    ELSE LET b == blks[i].bytecodes[j]
         IN  IF transfer_bytecode_panics(b, blks, offs) \/ j > Len(blks[i].states)
             THEN Pass(blks, chg, TRUE)
             ELSE LET before == transfer_bytecode(b, state, blks, offs)
                      joined == ns_join(blks[i].states[j].necessary, before)
                      updated == [blks EXCEPT ![i].states[j].necessary = joined.stack]
                  IN  pass_bytecodes(updated, i, j - 1, before, chg \/ joined.changed, offs)

\* `for i in (0..n).rev()`: the blocks backwards from i.
RECURSIVE pass_blocks(_, _, _, _)
pass_blocks(blks, i, chg, offs) ==
    IF i = 0 THEN Pass(blks, chg, FALSE)
    ELSE LET nxt == blks[i].next
         IN  IF IsSome(nxt) /\ Unwrap(nxt) \notin DOMAIN offs
             THEN Pass(blks, chg, TRUE)
             ELSE LET seed == IF nxt = None THEN <<>>
                              ELSE blks[offs[Unwrap(nxt)]].states[1].necessary
                      r == pass_bytecodes(blks, i, Len(blks[i].bytecodes), seed, chg, offs)
                  IN  IF r.panic THEN r
                      ELSE pass_blocks(r.blocks, i - 1, r.changed, offs)

\* One iteration of the while loop of determine_necessary_stateinfo (without
\* the decrement of the counter).
liveness_pass(blks, offs) == pass_blocks(blks, Len(blks), FALSE, offs)

\* AbstractState::clear_stack_item
clear_stack_item(self, item) ==
    IF item < Len(self.stack_frame)
    THEN [self EXCEPT !.stack_frame[item + 1] = None]
    ELSE self

\* BlockState::clear_stack_item
BlockState_clear_stack_item(bs, item) ==
    [bs EXCEPT !.states = [k \in 1..Len(bs.states) |-> clear_stack_item(bs.states[k], item)]]

\* BlockState::stack_bounds whose maximum stays at its initial value.
stack_height_initial(bs) == 0

\* BlockState::stack_bounds with the minimum returned in place of the maximum.
stack_height_min(bs) ==
    IF bs.states = <<>> THEN 0
    ELSE CHOOSE h \in { Len(bs.states[k].stack_frame) : k \in 1..Len(bs.states) } :
            \A k \in 1..Len(bs.states) : h <= Len(bs.states[k].stack_frame)

\* BlockState::stack_bounds, the maximum: the height of the tallest state, 0
\* when there is none.
stack_height_max(bs) ==
    IF bs.states = <<>> THEN 0
    ELSE CHOOSE h \in { Len(bs.states[k].stack_frame) : k \in 1..Len(bs.states) } :
            \A k \in 1..Len(bs.states) : h >= Len(bs.states[k].stack_frame)

\* BlockState::minimise with the test of the necessary bit inverted.
RECURSIVE minimise_from_inverted(_, _, _)
minimise_from_inverted(bs, i, height) ==
    IF i >= height THEN bs
    ELSE minimise_from_inverted(IF ns_get(bs.necessary, i)
                                THEN BlockState_clear_stack_item(bs, i) ELSE bs,
                                i + 1, height)

\* `for i in 0..height` of BlockState::minimise, from item i on.
RECURSIVE minimise_from(_, _, _)
minimise_from(bs, i, height) ==
    IF i >= height THEN bs
    ELSE minimise_from(IF ~ns_get(bs.necessary, i)
                       THEN BlockState_clear_stack_item(bs, i) ELSE bs,
                       i + 1, height)

\* BlockState::minimise
BlockState_minimise(bs) == minimise_from(bs, 0, stack_height_max(bs))

\* Block::minimise
Block_minimise(blk) ==
    [blk EXCEPT !.states = [j \in 1..Len(blk.states) |-> BlockState_minimise(blk.states[j])]]

\* ---------------------------------------------------------------- printer.rs

\* Block::is_unreachable: the block has no entry state.
Block_is_unreachable(blk) == blk.states[1].states = <<>>

\* Block::entry_state: the join of the entry states.
Block_entry_state(blk) == join_states(blk.states[1].states)

\* block_stacked_states panics when its assertion fails, when cancel indexes
\* past the stack of the state, or when the height of a state is no index of
\* the vector of n buckets.
block_stacked_states_panics(blk, joined, n) ==
    \E k \in 1..Len(blk.states[1].states) :
        LET st == blk.states[1].states[k]
        IN  \/ ~(Len(st.stack_frame) >= Len(joined.stack_frame))
            \/ cancel_panics(st, joined)
            \/ ~(Len(st.stack_frame) < n)

\* block_stacked_states: n buckets; bucket sh holds, in their order, the entry
\* states of height sh with what the join knows cancelled.
block_stacked_states(blk, joined, n) ==
    [sh1 \in 1..n |->
        LET entry == blk.states[1].states
            cancelled == [k \in 1..Len(entry) |-> cancel(entry[k], joined)]
        IN  SelectSeq(cancelled, LAMBDA st : Len(st.stack_frame) = sh1 - 1)]

\* ---------------------------------------------------------------- SpecAbs
\* The abstract domain on its own: the operations of AbstractState applied to
\* every pair of abstract states within the bounds.

AbsIdle ==
    /\ absSelf = None /\ absOther = None /\ absPre = None /\ absOp = "idle"

CfgIdle ==
    /\ graph = None /\ dominators = None /\ reaches = None
    /\ roots = <<>> /\ cfgBlocks = {}

PipeIdle ==
    /\ insns = <<>> /\ blocksize = 0 /\ preHook = "none" /\ analysis = <<>>
    /\ blocks = <<>> /\ insnIndex = 0 /\ insnPc = 0 /\ spans = <<>>
    /\ offsets = <<>> /\ changed = FALSE /\ counter = 0 /\ phase = "idle"
    /\ printed = 0 /\ stacked = <<>>

ConvIdle ==
    /\ traceStates = <<>> /\ absStates = <<>> /\ convOp = "idle"

NsIdle ==
    /\ nsSelf = <<>> /\ nsOther = <<>> /\ nsJoined = <<>> /\ nsChanged = FALSE
    /\ nsOp = "idle"

XferIdle ==
    /\ xferBytecode = None /\ xferAfter = <<>> /\ xferBefore = <<>>
    /\ xferBlocks = <<>> /\ xferOp = "idle"

AbsInit ==
    /\ absSelf \in AbstractStates
    /\ absOther \in AbstractStates
    /\ absPre = absSelf
    /\ absOp = "new"
    /\ CfgIdle
    /\ PipeIdle
    /\ ConvIdle
    /\ XferIdle
    /\ NsIdle

AbsJoin ==
    /\ absOp \in {"new", "join", "cancel"}
    /\ absPre' = absSelf
    /\ absSelf' = join(absSelf, absOther)
    /\ absOp' = "join"
    /\ UNCHANGED <<absOther, cfgVars, pipeVars, convVars, xferVars, nsVars>>

\* x.cancel(y): the call returns, or panics on an index out of range.
AbsCancel ==
    /\ absOp \in {"new", "join", "cancel"}
    /\ absPre' = absSelf
    /\ absSelf' = cancel(absSelf, absOther)
    /\ absOp' = IF cancel_panics(absSelf, absOther) THEN "cancel_panic" ELSE "cancel"
    /\ UNCHANGED <<absOther, cfgVars, pipeVars, convVars, xferVars, nsVars>>

AbsNext == AbsJoin \/ AbsCancel

SpecAbs == AbsInit /\ [][AbsNext]_vars

\* ---------------------------------------------------------------- SpecConv
\* The conversion of BytecodeAnalysis::from_insns on its own: the trace has
\* returned a Vec<State> for an instruction, in an order of its choosing, and
\* from_insns converts it.  A State holds more than an AbstractState reads:
\* `mem` is the word it has at memory address 0.

TraceStates ==
    [at : {1},
     stack : {<<>>, <<None>>, <<Some(W(1))>>},
     fmp : {None, Some(128)},
     mem : {W(0), W(1)}]

ConvInit ==
    /\ traceStates \in SeqsUpTo(TraceStates, MaxTrace)
    /\ \A i, j \in 1..Len(traceStates) : i # j => traceStates[i] # traceStates[j]
    /\ absStates = <<>>
    /\ convOp = "traced"
    /\ AbsIdle
    /\ CfgIdle
    /\ PipeIdle
    /\ XferIdle
    /\ NsIdle

\* `let mut s = t.iter().map(AbstractState::new).collect(); s.dedup(); states.push(s)`
Convert ==
    /\ convOp = "traced"
    /\ absStates' = convert_states(traceStates)
    /\ convOp' = "converted"
    /\ UNCHANGED <<traceStates, absVars, cfgVars, pipeVars, xferVars, nsVars>>

ConvNext == Convert

SpecConv == ConvInit /\ [][ConvNext]_vars

\* ---------------------------------------------------------------- SpecXfer
\* transfer_bytecode on its own: one call on a bytecode, the NecessaryState
\* after it and the blocks of the sequence.  The bytecodes are those a block
\* can hold.  The sequence has two blocks, at the byte offsets 3 and 6, of
\* which the call reads the entry NecessaryState only; a branch has no target
\* (as in a block without states), one or two of the blocks, or the byte
\* offset 9 where no block starts.

TransferBytecodes ==
    {Unit(Op("MSTORE")), Unit(Op("MSTORE8")), Unit(Op("ADD")), Unit(Op("POP")),
     Unit(Op("SSTORE")), Unit(Op("CALLVALUE")), Unit(Op("ISZERO")), Unit(Op("STOP")),
     Unit(Op("JUMPDEST")), Unit(LOG(1)),
     Unit(PUSH1(1)), Unit(DUP(1)), Unit(DUP(2)), Unit(SWAP(1)), Unit(SWAP(2)),
     Mask(8), Comment(0),
     AssertBc(<<0>>), AssertBc(<<0, 2>>), AssertBc(<<5>>), AssertBc(<<>>),
     JumpI(<<>>), Jump(<<>>), JumpI(<<3>>), Jump(<<3>>), JumpI(<<6>>), Jump(<<6>>),
     JumpI(<<3, 6>>), Jump(<<3, 6>>), JumpI(<<3, 9>>), Jump(<<9>>)}

\* The entry NecessaryStates of the two blocks.
EntryStates == {<<>>, <<TRUE>>, <<TRUE, FALSE>>, <<FALSE, TRUE, FALSE>>}

\* A block of which only the starting pc and the entry NecessaryState matter.
TargetBlock(at, entry) ==
    [pc |-> at, next |-> None, bytecodes |-> <<Unit(Op("JUMPDEST"))>>,
     states |-> <<[states |-> <<>>, necessary |-> entry]>>]

XferInit ==
    /\ xferBytecode \in TransferBytecodes
    /\ xferAfter \in SeqsUpTo(BOOLEAN, MaxBits)
    /\ \E e1, e2 \in EntryStates :
          xferBlocks = <<TargetBlock(3, e1), TargetBlock(6, e2)>>
    /\ xferBytecode.tag \notin {"Jump", "JumpI"}
          => xferBlocks = <<TargetBlock(3, <<>>), TargetBlock(6, <<>>)>>
    /\ xferBefore = <<>>
    /\ xferOp = "called"
    /\ AbsIdle
    /\ CfgIdle
    /\ PipeIdle
    /\ ConvIdle
    /\ NsIdle

\* `state = transfer_bytecode(b, state, &blocks, &offsets)`, which panics in
\* merge_target_states on a target that is no key of offsets.
Transfer ==
    /\ xferOp = "called"
    /\ LET offs == block_offsets(xferBlocks)
       IN  IF transfer_bytecode_panics(xferBytecode, xferBlocks, offs)
           THEN /\ xferOp' = "panic"
                /\ UNCHANGED xferBefore
           ELSE /\ xferBefore' = transfer_bytecode(xferBytecode, xferAfter, xferBlocks, offs)
                /\ xferOp' = "returned"
    /\ UNCHANGED <<xferBytecode, xferAfter, xferBlocks, absVars, cfgVars, pipeVars, convVars,
                   nsVars>>

XferNext == Transfer

SpecXfer == XferInit /\ [][XferNext]_vars

\* ---------------------------------------------------------------- SpecNs
\* NecessaryState::join on its own, applied to every pair of stacks within
\* the bound.

NsInit ==
    /\ nsSelf \in SeqsUpTo(BOOLEAN, MaxBits)
    /\ nsOther \in SeqsUpTo(BOOLEAN, MaxBits)
    /\ nsJoined = nsSelf
    /\ nsChanged = FALSE
    /\ nsOp = "new"
    /\ AbsIdle
    /\ CfgIdle
    /\ PipeIdle
    /\ ConvIdle
    /\ XferIdle

\* `changed = self.join(&other)`
NsJoin ==
    /\ nsOp = "new"
    /\ nsJoined' = ns_join(nsSelf, nsOther).stack
    /\ nsChanged' = ns_join(nsSelf, nsOther).changed
    /\ nsOp' = "join"
    /\ UNCHANGED <<nsSelf, nsOther, absVars, cfgVars, pipeVars, convVars, xferVars>>

NsNext == NsJoin

SpecNs == NsInit /\ [][NsNext]_vars

\* ---------------------------------------------------------------- cfg.rs

\* The nodes of the basic-block graph; node k covers the byte offsets
\* k*NodeLen .. (k+1)*NodeLen - 1 and node 0 is the entry.
Nodes == 0 .. (MaxNodes - 1)
Pcs == 0 .. (MaxNodes * NodeLen - 1)
NodeStarts == { k * NodeLen : k \in Nodes }

\* graph.nodes().lookup_pc: the node enclosing a byte offset.
lookup_pc(pc) == pc \div NodeLen

\* Nodes reachable from node `from` by zero or more edges of g that avoid the
\* nodes in `without`.
RECURSIVE Closure(_, _, _)
Closure(g, seen, without) ==
    LET more == (UNION { g[n] : n \in seen }) \ (seen \cup without)
    IN  IF more = {} THEN seen ELSE Closure(g, seen \cup more, without)

\* evmil::util::dominators as called by ControlFlowGraph::new: for each node
\* the set of its dominators, itself included (d dominates n iff every path
\* from the entry to n passes through d).
ComputeDominators(g) ==
    [n \in Nodes |->
        { d \in Nodes : d = n \/ n \notin Closure(g, {0} \ {d}, {d}) }]

\* evmil::util::transitive_closure as called by ControlFlowGraph::new: for
\* each node the nodes reached through one or more edges.
ComputeReaches(g) ==
    [n \in Nodes |-> IF g[n] = {} THEN {} ELSE Closure(g, g[n], {})]

\* ControlFlowGraph::dominates
dominates(parent, child) ==
    LET gp == lookup_pc(parent)
        gc == lookup_pc(child)
    IN  gp \in dominators[gc]

\* ControlFlowGraph::reaches
reaches_pc(parent, child) ==
    LET gp == lookup_pc(parent)
        gc == lookup_pc(child)
    IN  parent = child \/ gc \in reaches[gp]

\* The scan of owns over self.roots[i..]: FALSE at the first inner root that
\* reaches the block, TRUE when the list is exhausted.
RECURSIVE owns_scan(_, _, _)
owns_scan(root, blk_pc, i) ==
    IF i > Len(roots) THEN TRUE
    ELSE IF roots[i] # root /\ dominates(root, roots[i]) /\ reaches_pc(roots[i], blk_pc)
         THEN FALSE
         ELSE owns_scan(root, blk_pc, i + 1)

\* ControlFlowGraph::owns with the test `*r != root` left out.
owns_no_self_test(root, blk_pc) ==
    /\ dominates(root, blk_pc)
    /\ \A i \in 1..Len(roots) :
          ~(dominates(root, roots[i]) /\ reaches_pc(roots[i], blk_pc))

\* ControlFlowGraph::owns
owns(root, blk_pc) ==
    IF dominates(root, blk_pc) THEN owns_scan(root, blk_pc, 1) ELSE FALSE

\* ControlFlowGraph::get_owned: the blocks owned by a root, in block order.
get_owned(root) == { b \in cfgBlocks : owns(root, b) }

\* ---------------------------------------------------------------- SpecCfg
\* ControlFlowGraph::new on a graph within the bounds, then any sequence of
\* add_root calls.  Every node of the graph is reachable from the entry and has
\* at most two successors; a super-block starts at every byte offset (a block
\* size of one instruction of one byte), which covers every smaller set of
\* super-blocks.

RootSet == { roots[i] : i \in 1..Len(roots) }

Graphs ==
    { g \in [Nodes -> { s \in SUBSET Nodes : Cardinality(s) <= 2 }] :
        Closure(g, {0}, {}) = Nodes }

CfgInit ==
    /\ graph \in Graphs
    /\ dominators = ComputeDominators(graph)
    /\ reaches = ComputeReaches(graph)
    /\ roots = <<>>
    /\ cfgBlocks = Pcs
    /\ AbsIdle
    /\ PipeIdle
    /\ ConvIdle
    /\ XferIdle
    /\ NsIdle

\* ControlFlowGraph::add_root
add_root(pc) ==
    /\ Len(roots) < MaxRoots
    /\ roots' = Append(roots, pc)
    /\ UNCHANGED <<graph, dominators, reaches, cfgBlocks, absVars, pipeVars, convVars, xferVars, nsVars>>

CfgNext == \E pc \in NodeStarts : add_root(pc)

SpecCfg == CfgInit /\ [][CfgNext]_vars

\* ---------------------------------------------------------------- Spec
\* BlockSequence::from_insns on an instruction stream, then minimise: the
\* blocks are built one at a time, the liveness rounds run until no state
\* changes or the counter runs out, and the states are pruned.

\* The instructions of the exhaustively enumerated streams: a push of the byte
\* offset 3 (where PUSH1 JUMP puts a JUMPDEST), the branches, an instruction
\* the overflow hook guards and the virtual HAVOC.
Alphabet ==
    {PUSH1(3), Op("JUMPDEST"), Op("JUMP"), Op("JUMPI"), Op("ADD"), HAVOC(0)}

\* The words pushed right before an AND: every canonical mask, and constants
\* that are no mask.
AndOperands ==
    {MASK_U1, MASK_U5, MASK_U8, MASK_U16, MASK_U24, MASK_U32, MASK_U64,
     MASK_U128, MASK_U160, <<>>, <<3>>, <<127>>, <<255, 0>>, <<1, 255>>, Ones(5)}

Catalogue ==
    { \* PUSH1 1; PUSH1 2; SSTORE
      <<PUSH1(1), PUSH1(2), Op("SSTORE")>>,
      \* PUSH1 3; JUMP; JUMPDEST; STOP
      <<PUSH1(3), Op("JUMP"), Op("JUMPDEST"), Op("STOP")>>,
      \* PUSH1 5; JUMP; JUMPDEST; STOP: the jump has no valid destination
      <<PUSH1(5), Op("JUMP"), Op("JUMPDEST"), Op("STOP")>>,
      \* a conditional branch on an unknown condition
      <<Op("CALLVALUE"), PUSH1(6), Op("JUMPI"), PUSH1(1), Op("JUMPDEST"), Op("STOP")>>,
      \* a conditional branch on a constant condition
      <<PUSH1(0), PUSH1(7), Op("JUMPI"), PUSH1(1), Op("JUMPDEST"), Op("STOP")>>,
      \* a conditional branch right before a JUMPDEST, and one before a push
      <<Op("CALLVALUE"), PUSH1(4), Op("JUMPI"), Op("JUMPDEST"), Op("CALLVALUE"),
        PUSH1(11), Op("JUMPI"), PUSH1(1), Op("JUMPDEST"), Op("STOP")>>,
      \* a conditional branch at the end of the stream
      <<Op("JUMPDEST"), Op("CALLVALUE"), PUSH1(0), Op("JUMPI")>>,
      \* PUSH1 0x42; POP; STOP
      <<PUSH1(66), Op("POP"), Op("STOP")>>,
      \* a routine at 6 that returns to the address on the stack: twice to
      \* itself, then to 8
      <<PUSH1(8), PUSH1(6), PUSH1(6), Op("JUMPDEST"), Op("JUMP"),
        Op("JUMPDEST"), Op("STOP")>>,
      \* a routine at 15 called from two sites with stacks of different heights,
      \* returning to 5 and to 13
      <<PUSH1(5), PUSH1(15), Op("JUMP"), Op("JUMPDEST"), PUSH1(7), PUSH1(13), PUSH1(15),
        Op("JUMP"), Op("JUMPDEST"), Op("STOP"), Op("JUMPDEST"), Op("JUMP")>>,
      \* the free-memory pointer is set, then a value is stored and logged
      <<PUSH1(128), PUSH1(64), Op("MSTORE"), PUSH1(1), PUSH1(2), LOG(0), Op("STOP")>>,
      \* an addition guarded by the overflow hook, its result stored
      <<PUSH1(1), PUSH1(2), Op("ADD"), PUSH1(0), Op("SSTORE"), Op("STOP")>>,
      \* stack shuffling before a return
      <<PUSH1(1), PUSH1(2), DUP(2), SWAP(1), Op("POP"), Op("RETURN")>>,
      \* an external call and a revert in code the trace does not reach
      <<Op("STOP"), Op("CALL"), PUSH1(0), Op("REVERT")>>,
      \* a HAVOC between two real instructions
      <<PUSH1(1), HAVOC(0), Op("POP"), Op("STOP")>>,
      \* data after the code
      <<Op("STOP"), DATA(<<1, 2>>)>> }
    \cup { <<Op("CALLVALUE"), PUSH(w), Op("AND"), Op("STOP")>> : w \in AndOperands }
    \cup { <<Op("CALLVALUE"), Op("CALLVALUE"), Op("AND")>>,
           <<PUSH1(255), Op("AND")>> }

Programs == Catalogue \cup SeqsUpTo(Alphabet, MaxInsns)

LongestProgram ==
    CHOOSE k \in { Len(p) : p \in Programs } : \A p \in Programs : Len(p) <= k

\* The block sizes tried: the small ones, and one no stream exhausts.
BlockSizes == (1..MaxBlockSize) \cup {LongestProgram + 1}

Hooks == {"none", "overflows", "every"}

Init ==
    /\ insns \in Programs
    /\ blocksize \in BlockSizes
    /\ preHook \in Hooks
    /\ analysis = from_insns(insns)
    /\ blocks = <<>> /\ insnIndex = 0 /\ insnPc = 0 /\ spans = <<>>
    /\ offsets = <<>> /\ changed = FALSE /\ counter = 0
    /\ phase = "build"
    /\ printed = 0 /\ stacked = <<>>
    /\ AbsIdle
    /\ CfgIdle
    /\ ConvIdle
    /\ XferIdle
    /\ NsIdle

\* One iteration of the while loop of insns_to_blocks: the next block is built
\* and stored, or the translation of a branch panics.
BuildBlock ==
    /\ phase = "build"
    /\ blocksize > 0 /\ insnIndex < Len(insns)
    /\ LET r == insns_to_block(blocksize, insnPc, insnIndex, insns, analysis, preHook)
       IN  IF r.panic
           THEN /\ phase' = "panic"
                /\ UNCHANGED <<blocks, insnIndex, insnPc, spans>>
           ELSE /\ blocks' = Append(blocks, r.block)
                /\ insnPc' = r.pc
                /\ insnIndex' = r.i
                /\ spans' = Append(spans, [first |-> insnIndex, last |-> r.i])
                /\ phase' = phase
    /\ UNCHANGED <<inputVars, liveVars, absVars, cfgVars, convVars, xferVars, nsVars,
                   printVars>>

\* insns_to_blocks returns and determine_necessary_stateinfo starts: the map
\* of the block offsets, changed = true, counter = 100.
StartLiveness ==
    /\ phase = "build"
    /\ ~(blocksize > 0 /\ insnIndex < Len(insns))
    /\ offsets' = block_offsets(blocks)
    /\ changed' = TRUE
    /\ counter' = SafetyCounter
    /\ phase' = "live"
    /\ UNCHANGED <<inputVars, buildVars, absVars, cfgVars, convVars, xferVars, nsVars,
                   printVars>>

\* One iteration of the while loop of determine_necessary_stateinfo: a full
\* backwards pass over the blocks, or a panic on a pc that starts no block.
LivenessRound ==
    /\ phase = "live"
    /\ changed /\ counter > 0
    /\ LET r == liveness_pass(blocks, offsets)
       IN  IF r.panic
           THEN /\ phase' = "panic"
                /\ UNCHANGED <<blocks, changed, counter>>
           ELSE /\ blocks' = r.blocks
                /\ changed' = r.changed
                /\ counter' = counter - 1
                /\ phase' = phase
    /\ UNCHANGED <<inputVars, insnIndex, insnPc, spans, offsets, absVars, cfgVars, convVars, xferVars, nsVars,
                   printVars>>

\* The while loop of determine_necessary_stateinfo ends and the function
\* returns to BlockSequence::from_insns.
LivenessReturn ==
    /\ phase = "live"
    /\ ~(changed /\ counter > 0)
    /\ phase' = "analysed"
    /\ UNCHANGED <<inputVars, buildVars, liveVars, absVars, cfgVars, convVars, xferVars, nsVars,
                   printVars>>

\* BlockSequence::minimise
Minimise ==
    /\ phase = "analysed"
    /\ blocks' = [i \in 1..Len(blocks) |-> Block_minimise(blocks[i])]
    /\ phase' = "minimised"
    /\ UNCHANGED <<inputVars, insnIndex, insnPc, spans, liveVars, absVars, cfgVars, convVars, xferVars, nsVars,
                   printVars>>

\* BlockPrinter::print_stack_requires on a reachable block of the sequence,
\* with or without the setting minimise_requires, up to the call of
\* block_stacked_states in print_dynamic_stack_requires.
PrintStackRequires(b, minimise_requires) ==
    /\ phase \in {"analysed", "minimised"}
    /\ b \in 1..Len(blocks)
    /\ ~Block_is_unreachable(blocks[b])
    /\ LET block == IF minimise_requires THEN Block_minimise(blocks[b]) ELSE blocks[b]
           joined == Block_entry_state(block)
           max == stack_height_max(block.states[1])
       IN  stacked' =
              IF block_stacked_states_panics(block, joined, max + 1)
              THEN [panic |-> TRUE, stack |-> <<>>]
              ELSE [panic |-> FALSE, stack |-> block_stacked_states(block, joined, max + 1)]
    /\ printed' = b
    /\ phase' = "printed"
    /\ UNCHANGED <<inputVars, buildVars, liveVars, absVars, cfgVars, convVars, xferVars,
                   nsVars>>

Next ==
    \/ BuildBlock \/ StartLiveness \/ LivenessRound \/ LivenessReturn \/ Minimise
    \/ \E b \in 1..Len(blocks) : \E m \in BOOLEAN : PrintStackRequires(b, m)

Spec == Init /\ [][Next]_vars

\* ---------------------------------------------------------------- claims

\* C1: AbstractState::join(self, other) leaves self with a stack of length
\* min(len(self), len(other)); slot i is Some(v) iff both inputs had Some(v)
\* with the same v at index i and is None otherwise; the free-memory pointer
\* is kept only if both are Some and equal.
C1_JoinContract ==
    absOp = "join" =>
        LET a == absPre.stack_frame
            b == absOther.stack_frame
            r == absSelf.stack_frame
        IN  /\ Len(r) = Min(Len(a), Len(b))
            /\ \A i \in 1..Len(r) :
                  /\ (a[i] # None /\ a[i] = b[i]) => r[i] = a[i]
                  /\ ~(a[i] # None /\ a[i] = b[i]) => r[i] = None
            /\ absSelf.freemem_ptr =
                  IF absPre.freemem_ptr # None
                     /\ absPre.freemem_ptr = absOther.freemem_ptr
                  THEN absPre.freemem_ptr ELSE None

\* A join of a longer stack with a shorter one, with an agreeing slot, a
\* disagreeing slot and differing free-memory pointers.
C1_Witness ==
    /\ absOp = "join"
    /\ Len(absPre.stack_frame) > Len(absOther.stack_frame)
    /\ Len(absOther.stack_frame) = 2
    /\ absPre.stack_frame[1] = Some(W(1)) /\ absOther.stack_frame[1] = Some(W(1))
    /\ absPre.stack_frame[2] = Some(W(1)) /\ absOther.stack_frame[2] = Some(W(2))
    /\ absPre.freemem_ptr = Some(96) /\ absOther.freemem_ptr = Some(128)
    /\ absSelf.stack_frame = <<Some(W(1)), None>>
    /\ absSelf.freemem_ptr = None

\* The roots that own the super-block starting at b.
Owners(b) == { r \in RootSet : owns(r, b) }

\* C2: ownership exclusivity: for every set of registered roots and every
\* super-block, at most one root owns the block.
C2_OwnershipExclusive ==
    \A b \in cfgBlocks : Cardinality(Owners(b)) <= 1

\* Ownership is exclusive for the super-blocks that start a basic-block node.
C2_ExclusiveAtNodeStarts ==
    \A b \in cfgBlocks \cap NodeStarts : Cardinality(Owners(b)) <= 1

BlockIds == 1..Len(blocks)
Points(b) == 1..Len(blocks[b].states)

\* Two NecessaryStates hold the same bits when `get` agrees on every item.
SameBits(a, b) ==
    \A item \in 0..Max(Len(a), Len(b)) : ns_get(a, item) = ns_get(b, item)

\* determine_necessary_stateinfo has returned.
Returned == phase \in {"analysed", "minimised"}

\* C4: when determine_necessary_stateinfo returns, one more full backwards pass
\* over the blocks changes no bit of any per-point NecessaryState.
C4_FixedPointOnReturn ==
    phase = "analysed" =>
        LET r == liveness_pass(blocks, offsets)
        IN  /\ ~r.panic
            /\ ~r.changed
            /\ \A b \in BlockIds : \A j \in Points(b) :
                    SameBits(r.blocks[b].states[j].necessary,
                             blocks[b].states[j].necessary)

\* The fixed point is reached whenever the loop ends because no state changed.
C4_FixedPointWhenConverged ==
    (phase = "analysed" /\ ~changed) =>
        LET r == liveness_pass(blocks, offsets)
        IN  /\ ~r.panic
            /\ ~r.changed
            /\ \A b \in BlockIds : \A j \in Points(b) :
                    SameBits(r.blocks[b].states[j].necessary,
                             blocks[b].states[j].necessary)

\* C5: the liveness iteration never returns normally after it used up its 100
\* rounds with the last round still changing a NecessaryState.
C5_ExhaustionAborts ==
    ~(Returned /\ counter = 0 /\ changed)

\* The instructions with an observable effect.
ObservableOps == {"SSTORE", "RETURN", "REVERT", "LOG", "CALL"}

\* C6: after the liveness iteration, every operand of an SSTORE, RETURN,
\* REVERT, LOG or CALL has its necessary bit set at the point before that
\* instruction.
C6_ObservableOperandsNecessary ==
    phase = "analysed" =>
        \A b \in BlockIds : \A j \in Points(b) :
            LET bc == blocks[b].bytecodes[j]
            IN  (bc.tag = "Unit" /\ bc.insn.op \in ObservableOps) =>
                    \A item \in 0..(insn_operands(bc.insn) - 1) :
                        ns_get(blocks[b].states[j].necessary, item)

\* C7: after minimisation, a state of a BlockState has Some(v) only at stack
\* indices whose necessary bit is true; every index with a false bit is None
\* in every state.
C7_PruningSafety ==
    phase = "minimised" =>
        \A b \in BlockIds : \A j \in Points(b) :
            LET bs == blocks[b].states[j]
            IN  \A k \in 1..Len(bs.states) :
                    \A item \in 0..(Len(bs.states[k].stack_frame) - 1) :
                        IsSome(bs.states[k].stack_frame[item + 1])
                            => ns_get(bs.necessary, item)

\* A BlockState with states of different heights where the minimisation kept
\* a known value with a true bit and cleared, below the height of the shortest
\* state, a value that the analysis knew.
C7_Witness ==
    /\ phase = "minimised"
    /\ \E b \in BlockIds : \E j \in Points(b) :
        LET bs == blocks[b].states[j]
        IN  /\ \E k1, k2 \in 1..Len(bs.states) :
                    Len(bs.states[k1].stack_frame) < Len(bs.states[k2].stack_frame)
            /\ \E k \in 1..Len(bs.states) :
                /\ Len(bs.states[k].stack_frame) >= 2
                /\ IsSome(bs.states[k].stack_frame[1])
                /\ ns_get(bs.necessary, 0)
                /\ bs.states[k].stack_frame[2] = None
                /\ ~ns_get(bs.necessary, 1)
                /\ \A q \in 1..Len(insns) : insns[q].op \in {"PUSH", "JUMP", "JUMPDEST", "STOP"}

\* The byte offset at which block b ended: that of the instruction after its
\* last one.
BlockEnd(b) == OffsetOf(insns, spans[b].last + 1)

\* C8: the blocks partition the stream contiguously and in order: the first
\* starts at pc 0, each next one starts where the previous one ended, the
\* start pcs strictly increase, and the byte offset of every translated
\* instruction lies in exactly one block.
C8_BlocksPartitionStream ==
    /\ (Len(blocks) >= 1 => (blocks[1].pc = 0 /\ spans[1].first = 0))
    /\ \A b \in 2..Len(blocks) :
            /\ blocks[b].pc = BlockEnd(b - 1)
            /\ spans[b].first = spans[b - 1].last
            /\ blocks[b - 1].pc < blocks[b].pc
    /\ \A q \in 1..insnIndex :
            Cardinality({ b \in BlockIds :
                            /\ blocks[b].pc <= OffsetOf(insns, q)
                            /\ OffsetOf(insns, q) < BlockEnd(b) }) = 1

\* The partition holds for every stream without an instruction of length 0.
C8_PartitionOfRealInstructions ==
    (\A q \in 1..Len(insns) : insn_length(insns[q]) > 0) => C8_BlocksPartitionStream

\* The 0-based index of the instruction that bytecode j of block b translates:
\* every bytecode but an Assert of the hook stands for one instruction.
InsnOf(b, j) ==
    spans[b].first
        + Cardinality({ k \in 1..(j - 1) : blocks[b].bytecodes[k].tag # "Assert" })

\* The bytecodes of block b that translate an instruction: all but the Asserts
\* of the hook.
Translations(b) == SelectSeq(blocks[b].bytecodes, LAMBDA bc : bc.tag # "Assert")

\* Bytecode j of block b is the translation of the last instruction of b.
LastTranslation(b, j) ==
    \A k \in (j + 1)..Len(blocks[b].bytecodes) : blocks[b].bytecodes[k].tag = "Assert"

\* C9: a JumpI bytecode is the last bytecode of its block, the block's next is
\* the byte offset of the instruction after the JUMPI, and that instruction
\* starts a new block.
C9_JumpIClosesBlock ==
    \A b \in BlockIds : \A j \in 1..Len(blocks[b].bytecodes) :
        blocks[b].bytecodes[j].tag = "JumpI" =>
            LET after == InsnOf(b, j) + 1
            IN  /\ j = Len(blocks[b].bytecodes)
                /\ spans[b].last = after
                /\ blocks[b].next = Some(OffsetOf(insns, after + 1))
                /\ (b < Len(blocks) => spans[b + 1].first = after)

\* C9 (amended): a JUMPI does not close its block.  The instruction after it
\* is translated into the same block unless the budget of the block is used up
\* or that instruction is a JUMPDEST; in these two cases the JumpI is the last
\* translation of the block (only an Assert of the hook can follow it), next
\* is the byte offset of that instruction and it starts the next block.  When
\* the stream ends with the JUMPI, the JumpI is the last translation and next
\* is None, unless the budget is used up exactly, when next is the byte offset
\* of the end of the stream.
C9_JumpIFallsThrough ==
    \A b \in BlockIds : \A j \in 1..Len(blocks[b].bytecodes) :
        blocks[b].bytecodes[j].tag = "JumpI" =>
            LET after == InsnOf(b, j) + 1
                used == after - spans[b].first
            IN  IF after < Len(insns) /\ used < blocksize
                                     /\ insns[after + 1].op # "JUMPDEST"
                THEN /\ spans[b].last > after
                     /\ ~LastTranslation(b, j)
                ELSE /\ LastTranslation(b, j)
                     /\ spans[b].last = after
                     /\ IF after < Len(insns)
                        THEN /\ blocks[b].next = Some(OffsetOf(insns, after + 1))
                             /\ (b < Len(blocks) =>
                                    /\ spans[b + 1].first = after
                                    /\ blocks[b + 1].pc = OffsetOf(insns, after + 1))
                        ELSE blocks[b].next =
                                IF used = blocksize
                                THEN Some(OffsetOf(insns, Len(insns) + 1))
                                ELSE None

\* A block with a JumpI in its middle, and a block that a JumpI ends because
\* a JUMPDEST follows, both in one run.
C9_Witness ==
    /\ \E b \in BlockIds : \E j \in 1..Len(blocks[b].bytecodes) :
            /\ blocks[b].bytecodes[j].tag = "JumpI"
            /\ j < Len(blocks[b].bytecodes)
            /\ blocks[b].bytecodes[j + 1].tag = "Unit"
    /\ \E b \in BlockIds :
            /\ blocks[b].bytecodes[Len(blocks[b].bytecodes)].tag = "JumpI"
            /\ IsSome(blocks[b].next)
            /\ b < Len(blocks)

\* The widths of the canonical masks and the word 2^w - 1.
MaskWidths == {1, 5, 8, 16, 24, 32, 64, 128, 160}
LowMask(w) == (IF w % 8 = 0 THEN <<>> ELSE <<2 ^ (w % 8) - 1>>) \o Ones(w \div 8)

\* C10: an AND whose top-of-stack operand in the join of the states at the
\* instruction is the constant 2^w - 1, w one of 1, 5, 8, 16, 24, 32, 64, 128,
\* 160, is translated to Mask(w); every other AND is translated to Unit(AND).
C10_MaskRecognition ==
    phase \in {"build", "live", "analysed"} =>
        \A b \in BlockIds : \A j \in Points(b) :
            LET bc == blocks[b].bytecodes[j]
                top == operand(0, blocks[b].states[j].states)
            IN  (bc.tag = "Mask" \/ (bc.tag = "Unit" /\ bc.insn.op = "AND")) =>
                    IF \E w \in MaskWidths : top = Some(LowMask(w))
                    THEN \E w \in MaskWidths : top = Some(LowMask(w)) /\ bc = Mask(w)
                    ELSE bc = Unit(Op("AND"))

\* The recognition is as stated for every width but 24.
C10_MaskRecognitionBut24 ==
    phase \in {"build", "live", "analysed"} =>
        \A b \in BlockIds : \A j \in Points(b) :
            LET bc == blocks[b].bytecodes[j]
                top == operand(0, blocks[b].states[j].states)
            IN  (bc.tag = "Mask" \/ (bc.tag = "Unit" /\ bc.insn.op = "AND")) =>
                    IF \E w \in MaskWidths \ {24} : top = Some(LowMask(w))
                    THEN \E w \in MaskWidths : top = Some(LowMask(w)) /\ bc = Mask(w)
                    ELSE bc = Unit(Op("AND"))


\* C11: for every pair of abstract states x and y, of any stack lengths,
\* x.cancel(y) completes, leaves x.stack[i] = None wherever both had Some,
\* leaves every other slot of x unchanged and changes neither the length of
\* the stack of x nor its free-memory pointer.
C11_CancelContract ==
    /\ absOp # "cancel_panic"
    /\ absOp = "cancel" =>
        LET x == absPre.stack_frame
            y == absOther.stack_frame
            r == absSelf.stack_frame
        IN  /\ Len(r) = Len(x)
            /\ absSelf.freemem_ptr = absPre.freemem_ptr
            /\ \A i \in 1..Len(x) :
                  r[i] = IF i <= Len(y) /\ x[i] # None /\ y[i] # None
                         THEN None ELSE x[i]

\* The contract holds for every call that returns.
C11_CancelContractWhenReturned ==
    absOp = "cancel" =>
        LET x == absPre.stack_frame
            y == absOther.stack_frame
            r == absSelf.stack_frame
        IN  /\ Len(r) = Len(x)
            /\ absSelf.freemem_ptr = absPre.freemem_ptr
            /\ \A i \in 1..Len(x) :
                  r[i] = IF i <= Len(y) /\ x[i] # None /\ y[i] # None
                         THEN None ELSE x[i]


\* C18: joining an abstract state with a copy of itself leaves it unchanged:
\* the same stack length, the same slots, the same free-memory pointer.
C18_JoinIdempotent ==
    (absOp = "join" /\ absOther = absPre) => absSelf = absPre

\* A state with a known and an unknown slot and a known free-memory pointer,
\* joined with its copy.
C18_Witness ==
    /\ absOp = "join"
    /\ absOther = absPre
    /\ absPre.freemem_ptr = Some(128)
    /\ absPre.stack_frame = <<Some(W(2)), None, Some(W(1))>>
    /\ absSelf = absPre

\* A third state for the order of three: every stack of at most two slots over
\* one word, with or without a free-memory pointer.
ThirdStates ==
    [freemem_ptr : {None, Some(96)},
     stack_frame : {<<>>, <<None>>, <<Some(W(1))>>, <<None, Some(W(1))>>,
                    <<Some(W(1)), None>>, <<Some(W(1)), Some(W(1))>>,
                    <<Some(W(2)), Some(W(1))>>}]

\* C19: a.join(b) gives the state b.join(a) gives, and so
\* BlockState::join_states gives the same state for every order of its states.
C19_JoinCommutative ==
    absOp = "join" =>
        /\ absSelf = join(absOther, absPre)
        /\ join_states(<<absPre, absOther>>) = join_states(<<absOther, absPre>>)
        /\ \A c \in ThirdStates :
              /\ join_states(<<absPre, absOther, c>>) = join_states(<<absOther, absPre, c>>)
              /\ join_states(<<absPre, absOther, c>>) = join_states(<<absPre, c, absOther>>)
              /\ join_states(<<absPre, absOther, c>>) = join_states(<<c, absOther, absPre>>)

\* A join of a shorter stack with a longer one where one side knows a slot the
\* other does not, and the two agree on another slot.
C19_Witness ==
    /\ absOp = "join"
    /\ Len(absPre.stack_frame) = 2 /\ Len(absOther.stack_frame) = 3
    /\ absPre.stack_frame[1] = Some(W(1)) /\ absOther.stack_frame[1] = None
    /\ absPre.stack_frame[2] = Some(W(2)) /\ absOther.stack_frame[2] = Some(W(2))
    /\ absPre.freemem_ptr = Some(96) /\ absOther.freemem_ptr = None
    /\ absSelf = [freemem_ptr |-> None, stack_frame |-> <<None, Some(W(2))>>]


\* C12: the list of abstract states from_insns stores for an instruction holds
\* no two equal AbstractStates, whatever the order of the states the trace
\* returned.
C12_NoDuplicateStates ==
    convOp = "converted" =>
        \A i, j \in 1..Len(absStates) : i # j => absStates[i] # absStates[j]

\* No two neighbours of the stored list are equal.
C12_NoAdjacentDuplicates ==
    convOp = "converted" =>
        \A i \in 1..(Len(absStates) - 1) : absStates[i] # absStates[i + 1]


\* The bytecodes of block b.
Bytecodes(b) == 1..Len(blocks[b].bytecodes)

\* C13: in every block the target list of every Jump and JumpI is strictly
\* increasing and holds exactly the top-of-stack values of the abstract states
\* recorded at the branch.
C13_TargetsSorted ==
    \A b \in BlockIds : \A j \in Bytecodes(b) :
        LET bc == blocks[b].bytecodes[j]
            at == blocks[b].states[j].states
        IN  bc.tag \in {"Jump", "JumpI"} =>
                /\ \A k \in 1..(Len(bc.arg) - 1) : bc.arg[k] < bc.arg[k + 1]
                /\ { bc.arg[k] : k \in 1..Len(bc.arg) }
                      = { WordToNat(Unwrap(at[k].stack_frame[1])) : k \in 1..Len(at) }

\* A Jump reached in three states, two of them with the same top of stack, and
\* one target for each of the two values.
C13_Witness ==
    \E b \in BlockIds : \E j \in Bytecodes(b) :
        /\ blocks[b].bytecodes[j].tag = "Jump"
        /\ Len(blocks[b].states[j].states) = 3
        /\ Len(blocks[b].bytecodes[j].arg) = 2
        /\ blocks[b].bytecodes[j].arg[1] < blocks[b].bytecodes[j].arg[2]


\* Instruction q (0-based) is a JUMP or JUMPI that the analysis reaches in a
\* state without a known top of stack.
UnresolvedBranch(q) ==
    /\ insns[q + 1].op \in {"JUMP", "JUMPI"}
    /\ \E k \in 1..Len(get_states(analysis, q)) :
          LET st == get_states(analysis, q)[k].stack_frame
          IN  Len(st) = 0 \/ st[1] = None

\* C14: a JUMP or JUMPI with a state whose top of stack is unknown makes the
\* construction of the blocks fail: no block is ever built over such an
\* instruction, so no Jump or JumpI leaves that state out of its targets.
C14_UnresolvedBranchFails ==
    /\ \A q \in 0..(insnIndex - 1) : ~UnresolvedBranch(q)
    /\ \A b \in BlockIds : \A j \in Bytecodes(b) :
          blocks[b].bytecodes[j].tag \in {"Jump", "JumpI"} =>
              Len(blocks[b].states[j].states) = Len(known_top(blocks[b].states[j].states))
    /\ (phase \notin {"build", "panic"}) =>
          \A q \in 0..(Len(insns) - 1) : ~UnresolvedBranch(q)

\* The construction has failed at a block that holds a branch reached with a
\* stack whose top is an unknown word.
C14_Witness ==
    /\ phase = "panic"
    /\ insnIndex < Len(insns)
    /\ \E q \in insnIndex..(Len(insns) - 1) :
          /\ UnresolvedBranch(q)
          /\ \E k \in 1..Len(get_states(analysis, q)) :
                /\ Len(get_states(analysis, q)[k].stack_frame) > 0
                /\ get_states(analysis, q)[k].stack_frame[1] = None
          /\ \A p \in insnIndex..(q - 1) : insns[p + 1].op \notin {"JUMP", "JUMPDEST", "JUMPI"}
          /\ q - insnIndex < blocksize


\* The number of instructions block b translated.
Translated_count(b) == spans[b].last - spans[b].first

\* C15: every block built with block size n translates at least one and at
\* most n instructions of the stream; the Assert bytecodes of the hook are not
\* counted.
C15_BlockSizeBound ==
    \A b \in BlockIds :
        /\ Translated_count(b) >= 1
        /\ Translated_count(b) <= blocksize
        /\ Translated_count(b) =
              Cardinality({ j \in Bytecodes(b) : blocks[b].bytecodes[j].tag # "Assert" })

\* A block that used its whole budget of at least two instructions and holds
\* an Assert of the hook on top of them, followed by another block.
C15_Witness ==
    \E b \in BlockIds :
        /\ blocksize >= 2
        /\ Translated_count(b) = blocksize
        /\ Len(blocks[b].bytecodes) > blocksize
        /\ b < Len(blocks)


\* The instruction sets `done`: a JUMP, a DATA or one that does not fall
\* through.
Terminator(insn) == insn.op \in {"JUMP", "DATA"} \/ ~insn_fallthru(insn)

\* The last instruction block b translated.
LastInsn(b) == insns[spans[b].last]

\* C16: a JUMPDEST only appears as the first translated instruction of a
\* block.  A JUMPDEST met after the first instruction closes the block with
\* next = Some(pc of the JUMPDEST) and is the first instruction of the next
\* block; a JUMPDEST that is the first instruction of a block causes no split.
C16_JumpDestPlacement ==
    \A b \in BlockIds :
        /\ \A q \in spans[b].first..(spans[b].last - 1) :
              insns[q + 1].op = "JUMPDEST" => q = spans[b].first
        /\ \A j \in Bytecodes(b) :
              (blocks[b].bytecodes[j].tag = "Unit"
                  /\ blocks[b].bytecodes[j].insn.op = "JUMPDEST")
                      => InsnOf(b, j) = spans[b].first
        /\ (/\ spans[b].last < Len(insns)
            /\ insns[spans[b].last + 1].op = "JUMPDEST"
            /\ ~Terminator(LastInsn(b)))
              => /\ blocks[b].next = Some(OffsetOf(insns, spans[b].last + 1))
                 /\ b < Len(blocks) =>
                       /\ spans[b + 1].first = spans[b].last
                       /\ blocks[b + 1].pc = OffsetOf(insns, spans[b].last + 1)
                       /\ Translations(b + 1)[1] = Unit(Op("JUMPDEST"))
        /\ (/\ insns[spans[b].first + 1].op = "JUMPDEST"
            /\ blocksize >= 2
            /\ spans[b].first + 1 < Len(insns)
            /\ insns[spans[b].first + 2].op # "JUMPDEST")
              => /\ Translated_count(b) >= 2
                 /\ Translations(b)[1] = Unit(Op("JUMPDEST"))

\* A block that starts with the JUMPDEST at pc 0 and goes on after it, closed
\* before its budget is used by a second JUMPDEST, which starts the next block.
C16_Witness ==
    /\ Len(blocks) >= 2
    /\ insns[1].op = "JUMPDEST"
    /\ blocks[1].pc = 0
    /\ Translated_count(1) >= 2
    /\ Translated_count(1) < blocksize
    /\ IsSome(blocks[1].next)
    /\ blocks[2].pc = Unwrap(blocks[1].next)
    /\ blocks[2].bytecodes[1] = Unit(Op("JUMPDEST"))


\* Block b was closed by a JUMPDEST that follows it, or by its budget.
ClosedBySplit(b) == spans[b].last < Len(insns) /\ insns[spans[b].last + 1].op = "JUMPDEST"
ClosedByBudget(b) == Translated_count(b) = blocksize

\* C17: next is Some(pc) exactly when the block was closed by a JUMPDEST split
\* or by its budget without having translated a terminator, and pc is then the
\* byte offset just past its last instruction; a block that ends in a JUMP, a
\* DATA or an instruction that does not fall through has next = None; the last
\* bytecode of a block that is no Assert of the hook is the translation of its
\* last instruction, no terminator is added.
C17_FallThroughLink ==
    \A b \in BlockIds :
        LET last == Translations(b)[Len(Translations(b))]
        IN  /\ blocks[b].next =
                  IF ~Terminator(LastInsn(b)) /\ (ClosedBySplit(b) \/ ClosedByBudget(b))
                  THEN Some(OffsetOf(insns, spans[b].last + 1))
                  ELSE None
            /\ (~Terminator(LastInsn(b)) /\ ~ClosedBySplit(b) /\ ~ClosedByBudget(b))
                  => spans[b].last = Len(insns)
            /\ last.tag = "Jump" <=> LastInsn(b).op = "JUMP"
            /\ last.tag = "JumpI" <=> LastInsn(b).op = "JUMPI"
            /\ last.tag = "Unit" =>
                  (last.insn = LastInsn(b) /\ last.insn.op \notin {"JUMP", "JUMPI"})

\* One run with a block cut by its budget before an instruction that is no
\* JUMPDEST, a block closed by a JUMPDEST before its budget is used, and a
\* block that ends in a terminator.
C17_Witness ==
    /\ \E b \in BlockIds :
          /\ ClosedByBudget(b) /\ ~ClosedBySplit(b) /\ spans[b].last < Len(insns)
          /\ blocks[b].next = Some(OffsetOf(insns, spans[b].last + 1))
          /\ blocks[b].bytecodes[Len(blocks[b].bytecodes)].tag = "JumpI"
    /\ \E b \in BlockIds :
          /\ ClosedBySplit(b) /\ ~ClosedByBudget(b)
          /\ blocks[b].next = Some(OffsetOf(insns, spans[b].last + 1))
    /\ \E b \in BlockIds :
          /\ Terminator(LastInsn(b))
          /\ blocks[b].next = None


\* transfer_bytecode has returned from a call on an MSTORE or an MSTORE8.
StoreTransferred ==
    /\ xferOp = "returned"
    /\ xferBytecode.tag = "Unit"
    /\ xferBytecode.insn.op \in {"MSTORE", "MSTORE8"}

\* C20 as stated: the state before an MSTORE or MSTORE8 is the state after it
\* with its top bit popped, then false (value) and true (address) pushed: the
\* top slot is necessary, the second is not, and the slots below are the
\* after-state without its top bit.
C20_StorePopsThenPushes ==
    StoreTransferred =>
        /\ ns_get(xferBefore, 0)
        /\ ~ns_get(xferBefore, 1)
        /\ Len(xferBefore) = Len(ns_pop(xferAfter).stack) + 2
        /\ \A item \in 0..MaxBits :
              ns_get(xferBefore, item + 2) = ns_get(ns_pop(xferAfter).stack, item)

\* C20 as the code has it: the state before an MSTORE or MSTORE8 is the state
\* after it with false (value) and true (address) pushed and nothing popped:
\* the top slot is necessary, the second is not, and the slots below are the
\* whole after-state.
C20_StorePushesOnly ==
    StoreTransferred =>
        /\ ns_get(xferBefore, 0)
        /\ ~ns_get(xferBefore, 1)
        /\ Len(xferBefore) = Len(xferAfter) + 2
        /\ \A item \in 0..MaxBits :
              ns_get(xferBefore, item + 2) = ns_get(xferAfter, item)

\* A store transferred from an after-state whose top bit is true and whose
\* second bit is false: the top bit is kept, as the third slot before the store.
C20_Witness ==
    /\ StoreTransferred
    /\ Len(xferAfter) >= 2
    /\ ns_get(xferAfter, 0)
    /\ ~ns_get(xferAfter, 1)
    /\ ns_get(xferBefore, 2)
    /\ ~ns_get(xferBefore, 3)


\* The items a claim about transfer_bytecode looks at: every item of the
\* states within the bounds, and those a bytecode can add or reach.
Items == 0..(MaxBits + 6)

\* transfer_bytecode has returned from a call on a bytecode with this tag.
Transferred(tag) == xferOp = "returned" /\ xferBytecode.tag = tag

\* The OR of the `count` top bits of a NecessaryState.
TopBitsUsed(stack, count) == \E item \in 0..(count - 1) : ns_get(stack, item)

\* C21: the backwards transfer of a bytecode that is no branch is the one of
\* the table, for every after-state: Comment is the identity; Assert(uses)
\* sets the bits named in uses and changes no other; DUP(n) sets bit n to
\* get(0) OR get(n) and pops; SWAP(n) exchanges the bits 0 and n; Mask pops a
\* bit u, pushes u and pushes true; any other Unit(insn) (MSTORE and MSTORE8
\* apart) pops insn_produces(insn) bits into their OR u and pushes
\* insn.operands() copies of u.
C21_TransferTable ==
    /\ Transferred("Comment") => xferBefore = xferAfter
    /\ Transferred("Assert") =>
          \A item \in Items :
              ns_get(xferBefore, item) =
                  (ns_get(xferAfter, item)
                      \/ \E d \in 1..Len(xferBytecode.arg) : xferBytecode.arg[d] = item)
    /\ (Transferred("Unit") /\ xferBytecode.insn.op = "DUP") =>
          LET n == xferBytecode.insn.arg[1]
          IN  /\ Len(xferBefore) = Max(Len(xferAfter), n + 1) - 1
              /\ \A item \in Items :
                    ns_get(xferBefore, item) =
                        IF item + 1 = n
                        THEN ns_get(xferAfter, 0) \/ ns_get(xferAfter, n)
                        ELSE ns_get(xferAfter, item + 1)
    /\ (Transferred("Unit") /\ xferBytecode.insn.op = "SWAP") =>
          LET n == xferBytecode.insn.arg[1]
          IN  \A item \in Items :
                  ns_get(xferBefore, item) =
                      ns_get(xferAfter, IF item = 0 THEN n ELSE IF item = n THEN 0 ELSE item)
    /\ Transferred("Mask") =>
          /\ Len(xferBefore) = Max(Len(xferAfter), 1) + 1
          /\ ns_get(xferBefore, 0)
          /\ \A item \in Items : ns_get(xferBefore, item + 1) = ns_get(xferAfter, item)
    /\ (Transferred("Unit")
            /\ xferBytecode.insn.op \notin {"DUP", "SWAP", "MSTORE", "MSTORE8"}) =>
          LET pushes == insn_produces(xferBytecode.insn)
              pops == insn_operands(xferBytecode.insn)
              u == TopBitsUsed(xferAfter, pushes)
          IN  /\ Len(xferBefore) = Max(Len(xferAfter) - pushes, 0) + pops
              /\ \A item \in 0..(pops - 1) : ns_get(xferBefore, item) = u
              /\ \A item \in Items :
                    ns_get(xferBefore, pops + item) = ns_get(xferAfter, pushes + item)

\* An ADD transferred from an after-state whose top bit (its result) is false
\* above a true bit: both operands are unnecessary before it, and the true bit
\* is kept below them.
C21_Witness ==
    /\ Transferred("Unit")
    /\ xferBytecode.insn.op = "ADD"
    /\ ~ns_get(xferAfter, 0)
    /\ ns_get(xferAfter, 1)
    /\ ~ns_get(xferBefore, 0)
    /\ ~ns_get(xferBefore, 1)
    /\ ns_get(xferBefore, 2)


\* The entry NecessaryState of the block that starts at byte offset t.
EntryOf(t) == xferBlocks[block_offsets(xferBlocks)[t]].states[1].necessary

\* Bit `item` of the after-state joined with the entry state of every target.
JoinedBit(item) ==
    \/ ns_get(xferAfter, item)
    \/ \E d \in 1..Len(xferBytecode.arg) : ns_get(EntryOf(xferBytecode.arg[d]), item)

\* The height of the after-state joined with the entry state of every target.
JoinedLen ==
    LET lens == {Len(xferAfter)}
                  \cup { Len(EntryOf(xferBytecode.arg[d])) : d \in 1..Len(xferBytecode.arg) }
    IN  CHOOSE h \in lens : \A l \in lens : l <= h

\* C22: the state before a Jump(targets) is the state after it joined with the
\* entry NecessaryState of every target block, with true (the target pc)
\* pushed on top; the state before a JumpI(targets) is the state after it
\* joined with the entry NecessaryState of every target block, with false
\* (the condition) and then true (the target pc) pushed on top.
C22_BranchTransfer ==
    /\ Transferred("Jump") =>
          /\ Len(xferBefore) = JoinedLen + 1
          /\ ns_get(xferBefore, 0)
          /\ \A item \in Items : ns_get(xferBefore, item + 1) = JoinedBit(item)
    /\ Transferred("JumpI") =>
          /\ Len(xferBefore) = JoinedLen + 2
          /\ ns_get(xferBefore, 0)
          /\ ~ns_get(xferBefore, 1)
          /\ \A item \in Items : ns_get(xferBefore, item + 2) = JoinedBit(item)

\* A JumpI with two target blocks: a bit that only the entry state of the
\* second target has is necessary before the branch, under the two pushed bits,
\* and the after-state is the tallest of the three.
C22_Witness ==
    /\ Transferred("JumpI")
    /\ xferBytecode.arg = <<3, 6>>
    /\ Len(xferAfter) > Len(EntryOf(6))
    /\ \E item \in Items :
          /\ ns_get(EntryOf(6), item)
          /\ ~ns_get(EntryOf(3), item)
          /\ ~ns_get(xferAfter, item)
          /\ ns_get(xferBefore, item + 2)


\* C23: the iteration of determine_necessary_stateinfo stops because a round
\* changed no per-point NecessaryState: it never gets to the end of its
\* rounds (counter = 0) with the last round still having changed one.
C23_StopsOnConvergence ==
    (phase \in {"live", "analysed", "minimised"} /\ counter = 0) => ~changed


\* The abstract states of the BlockStates are those of the analysis until the
\* minimisation clears slots of them.
Unminimised == phase \in {"build", "live", "analysed", "panic"}

\* C24: for every block and every bytecode j, states[j] holds the abstract
\* states of the analysis on entry to the instruction that bytecode j was
\* produced from (an Assert of the hook has those of the instruction it was
\* appended for); states[0] holds those at the first instruction of the block.
C24_SnapshotAttachment ==
    Unminimised =>
        \A b \in BlockIds :
            /\ \A j \in Bytecodes(b) :
                  /\ j \in Points(b)
                  /\ blocks[b].states[j].states = get_states(analysis, InsnOf(b, j))
            /\ blocks[b].states[1].states = get_states(analysis, spans[b].first)

\* Every BlockState there is holds the abstract states of the analysis on
\* entry to the instruction of its bytecode.
C24_SnapshotWherePresent ==
    Unminimised =>
        \A b \in BlockIds :
            /\ \A j \in Points(b) :
                  /\ j \in Bytecodes(b)
                  /\ blocks[b].states[j].states = get_states(analysis, InsnOf(b, j))
            /\ blocks[b].states[1].states = get_states(analysis, spans[b].first)

\* C28: whatever the hook and the stream, every block has at least one
\* bytecode and as many BlockStates as bytecodes.
C28_ParallelSequences ==
    \A b \in BlockIds :
        /\ Len(blocks[b].bytecodes) >= 1
        /\ Len(blocks[b].states) = Len(blocks[b].bytecodes)

\* Without an Assert appended for a JUMPDEST that splits a block, the two
\* sequences have the same length.
C28_ParallelWithoutJumpDestAssert ==
    preHook # "every" => C28_ParallelSequences


\* C25: NecessaryState::join(self, other) aligns the two stacks at the top:
\* self gets the height of the taller one, every bit of self, counted from the
\* top, becomes the OR of the two bits at that index (a bit a stack does not
\* have counts as false), and the value returned is true iff a bit of self went
\* from false to true; growing by false bits alone returns false.
C25_NecessaryJoin ==
    nsOp = "join" =>
        /\ Len(nsJoined) = Max(Len(nsSelf), Len(nsOther))
        /\ \A item \in Items :
              ns_get(nsJoined, item) = (ns_get(nsSelf, item) \/ ns_get(nsOther, item))
        /\ nsChanged = (\E item \in Items : ~ns_get(nsSelf, item) /\ ns_get(nsOther, item))

\* A join with a taller other whose bits are all false where self has none
\* and none new elsewhere: self grows and the join returns false.
C25_Witness ==
    /\ nsOp = "join"
    /\ nsSelf # <<>>
    /\ Len(nsOther) > Len(nsSelf)
    /\ \E item \in Items : ns_get(nsSelf, item) /\ ~ns_get(nsOther, item)
    /\ \E item \in Items : ns_get(nsSelf, item) /\ ns_get(nsOther, item)
    /\ Len(nsJoined) > Len(nsSelf)
    /\ ~nsChanged


\* The step of BlockSequence::minimise keeps the blocks, their pc, next and
\* bytecodes, the necessary bits, the number of states and, in every state,
\* the free-memory pointer and the height of the stack; a slot is kept or
\* replaced by None, and kept when its necessary bit is true.
MinimiseFrame ==
    (phase = "analysed" /\ phase' = "minimised") =>
        /\ Len(blocks') = Len(blocks)
        /\ \A b \in BlockIds :
              /\ blocks'[b].pc = blocks[b].pc
              /\ blocks'[b].next = blocks[b].next
              /\ blocks'[b].bytecodes = blocks[b].bytecodes
              /\ Len(blocks'[b].states) = Len(blocks[b].states)
              /\ \A j \in Points(b) :
                    LET old == blocks[b].states[j]
                        new == blocks'[b].states[j]
                    IN  /\ new.necessary = old.necessary
                        /\ Len(new.states) = Len(old.states)
                        /\ \A k \in 1..Len(old.states) :
                              /\ new.states[k].freemem_ptr = old.states[k].freemem_ptr
                              /\ Len(new.states[k].stack_frame) = Len(old.states[k].stack_frame)
                              /\ \A i \in 1..Len(old.states[k].stack_frame) :
                                    /\ new.states[k].stack_frame[i]
                                          \in {old.states[k].stack_frame[i], None}
                                    /\ ns_get(old.necessary, i - 1) =>
                                          new.states[k].stack_frame[i]
                                              = old.states[k].stack_frame[i]

\* A round of determine_necessary_stateinfo keeps the blocks, their pc, next
\* and bytecodes and every abstract state: only necessary bits change.
LivenessFrame ==
    phase = "live" =>
        /\ Len(blocks') = Len(blocks)
        /\ \A b \in BlockIds :
              /\ blocks'[b].pc = blocks[b].pc
              /\ blocks'[b].next = blocks[b].next
              /\ blocks'[b].bytecodes = blocks[b].bytecodes
              /\ Len(blocks'[b].states) = Len(blocks[b].states)
              /\ \A j \in Points(b) :
                    blocks'[b].states[j].states = blocks[b].states[j].states

\* C26: BlockState::minimise and clear_stack_item only replace stack slots by
\* None: they change no number of states, no height of a stack, no free-memory
\* pointer, no slot whose necessary bit is true, no bytecode, necessary bit, pc
\* or next; the liveness pass changes necessary bits only, no abstract state,
\* bytecode, pc or next.
C26_MinimisationFrame == [][MinimiseFrame /\ LivenessFrame]_vars

\* After the minimisation, a block of a stream that sets the free-memory
\* pointer has a state that kept its pointer and a known slot, and a slot that
\* the analysis knew is None.
C26_Witness ==
    /\ phase = "minimised"
    /\ \E b \in BlockIds : \E j \in Points(b) :
          LET snapshot == get_states(analysis, InsnOf(b, j))
              now == blocks[b].states[j].states
          IN  \E k \in 1..Len(now) :
                /\ IsSome(now[k].freemem_ptr)
                /\ \E i \in 1..Len(now[k].stack_frame) :
                      IsSome(snapshot[k].stack_frame[i]) /\ now[k].stack_frame[i] = None
    /\ \E b \in BlockIds : \E j \in Points(b) :
          \E k \in 1..Len(blocks[b].states[j].states) :
              \E i \in 1..Len(blocks[b].states[j].states[k].stack_frame) :
                  /\ IsSome(blocks[b].states[j].states[k].stack_frame[i])
                  /\ ns_get(blocks[b].states[j].necessary, i - 1)


\* insns_to_blocks has returned the whole block sequence.
Built_all == phase \in {"live", "analysed", "minimised"}

\* C27: in the block sequence the builder returns, every block with
\* next = Some(pc) has a block that starts at pc, and the liveness pass never
\* fails on the lookup of a successor.
C27_NextResolves ==
    /\ Built_all =>
          \A b \in BlockIds :
              IsSome(blocks[b].next) =>
                  \E c \in BlockIds : blocks[c].pc = Unwrap(blocks[b].next)
    /\ phase = "panic" =>
          \A b \in BlockIds :
              IsSome(blocks[b].next) => Unwrap(blocks[b].next) \in DOMAIN offsets

\* A link that leads past the end of the stream is the only one that does not
\* resolve.
C27_NextResolvesOrEndOfStream ==
    Built_all =>
        \A b \in BlockIds :
            IsSome(blocks[b].next) =>
                \/ \E c \in BlockIds : blocks[c].pc = Unwrap(blocks[b].next)
                \/ /\ b = Len(blocks)
                   /\ spans[b].last = Len(insns)
                   /\ Translated_count(b) = blocksize


\* No necessary bit of a block built so far goes from true to false in this
\* step.
BitsKept ==
    \A b \in BlockIds : \A j \in Points(b) :
        /\ b <= Len(blocks')
        /\ j <= Len(blocks'[b].states)
        /\ \A item \in 0..(Len(blocks[b].states[j].necessary) - 1) :
              ns_get(blocks[b].states[j].necessary, item)
                  => ns_get(blocks'[b].states[j].necessary, item)

\* C29: for every block, position j and stack index i, once necessary.get(i)
\* at states[j] is true it is true after every later step, through all the
\* rounds of the liveness iteration and after it.
C29_BitsOnlyGrow == [][BitsKept]_vars

\* The iteration has run at least three rounds and has returned, and a
\* per-point state holds a true bit below a false one.
C29_Witness ==
    /\ phase = "analysed"
    /\ counter <= SafetyCounter - 3
    /\ ~changed
    /\ \E b \in BlockIds : \E j \in Points(b) :
          /\ ns_get(blocks[b].states[j].necessary, 1)
          /\ ~ns_get(blocks[b].states[j].necessary, 0)


\* C30: block_stacked_states never fails.  For every block with an entry
\* state, the join of the entry states has a stack no taller than that of any
\* entry state, so the assertion holds and cancel stays in range, and the
\* height of every entry state is below the number max + 1 of buckets; every
\* call made by print_dynamic_stack_requires returns its max + 1 buckets.
C30_StackedStatesSafe ==
    /\ \A b \in BlockIds :
          (blocks[b].states # <<>> /\ ~Block_is_unreachable(blocks[b])) =>
              LET entry == blocks[b].states[1].states
                  joined == Block_entry_state(blocks[b])
                  max == stack_height_max(blocks[b].states[1])
              IN  \A k \in 1..Len(entry) :
                    /\ Len(joined.stack_frame) <= Len(entry[k].stack_frame)
                    /\ ~cancel_panics(entry[k], joined)
                    /\ Len(entry[k].stack_frame) < max + 1
    /\ phase = "printed" =>
          /\ ~stacked.panic
          /\ Len(stacked.stack) = stack_height_max(blocks[printed].states[1]) + 1
          /\ \A sh1 \in 1..Len(stacked.stack) : \A k \in 1..Len(stacked.stack[sh1]) :
                Len(stacked.stack[sh1][k].stack_frame) = sh1 - 1

\* block_stacked_states has returned for a block with entry states of two
\* heights: each is in the bucket of its height, and a slot that all entry
\* states know is cancelled in the taller one.
C30_Witness ==
    /\ phase = "printed"
    /\ ~stacked.panic
    /\ LET entry == blocks[printed].states[1].states
       IN  \E k1, k2 \in 1..Len(entry) :
              /\ Len(entry[k1].stack_frame) < Len(entry[k2].stack_frame)
              /\ stacked.stack[Len(entry[k1].stack_frame) + 1] # <<>>
              /\ stacked.stack[Len(entry[k2].stack_frame) + 1] # <<>>
              /\ IsSome(entry[k2].stack_frame[1])
              /\ stacked.stack[Len(entry[k2].stack_frame) + 1][1].stack_frame[1] = None

====
